---------------------------- MODULE Spec2Model ----------------------------
(***************************************************************************)
(* gitmig: a model of GitMigEngine (gitmig.py) and of the rule lists of    *)
(* gitmig_config.py.  File names, patterns and relative paths are strings; *)
(* the file systems are the source tree (read only) and the destination.   *)
(* Paths use the POSIX separator "/", the platform os.sep of the model.    *)
(***************************************************************************)
EXTENDS Integers, Sequences, FiniteSets, TLC

(***************************************************************************)
(* gitmig_config.py                                                        *)
(***************************************************************************)
EXCLUDE_DIRS ==
  <<
    ".git", ".svn", ".hg", ".idea", ".vscode", "__pycache__",
    ".pytest_cache", ".mypy_cache", ".ruff_cache", "venv", ".venv", "env",
    ".env", ".tox", ".nox", "*.egg-info", "node_modules",
    "bower_components", ".next", ".nuxt", ".output", ".cache", "dist",
    "build", "target", "bin", "obj", "out", ".parcel-cache", ".DS_Store",
    "Thumbs.db", ".turbo"
  >>

EXCLUDE_FILE_PATTERNS ==
  <<
    "*.log", "*.tmp", "*.temp", "*.bak", "*.swp", "*.pyc", "*.pyo",
    "*.class", "*.dll", "*.exe", "*.o", "*.so", "*.dylib"
  >>

PRESERVE_PATTERNS == << ".env", ".env.*" >>

(***************************************************************************)
(* Bounds of the model.                                                    *)
(***************************************************************************)
\* file sizes of the source trees range over 0..MaxFileSize
MaxFileSize == 2
\* a configured size ceiling ranges over 0..MaxCeiling
MaxCeiling == 1
\* os.path.getsize of an archive is between 1 and MaxArchiveSize
MaxArchiveSize == 2
\* the arbitrary relative paths handed to _zip_repo have 1..MaxPathLen
\* characters
MaxPathLen == 3

(***************************************************************************)
(* Python values and string methods.                                       *)
(***************************************************************************)
\* Optional[int]: None is the empty tuple, a value n is <<n>>
None == << >>
Some(n) == << n >>

\* Python truthiness of an Optional[int]: None and 0 are both false
Truthy(v) == v # None /\ v[1] # 0

\* dict.get(k, default)
DictGet(d, k, default) == IF k \in DOMAIN d THEN d[k] ELSE default

\* d[k] = v on a dict
DictSet(d, k, v) == [x \in DOMAIN d \cup {k} |-> IF x = k THEN v ELSE d[x]]

StartsWith(s, pre) ==
  Len(s) >= Len(pre) /\ SubSeq(s, 1, Len(pre)) = pre

EndsWith(s, suf) ==
  Len(s) >= Len(suf) /\ SubSeq(s, Len(s) - Len(suf) + 1, Len(s)) = suf

\* sub in s
Contains(s, sub) ==
  \E i \in 1..(Len(s) - Len(sub) + 1) : SubSeq(s, i, i + Len(sub) - 1) = sub

RECURSIVE RStrip(_, _)
\* s.rstrip(ch)
RStrip(s, ch) ==
  IF s # "" /\ EndsWith(s, ch) THEN RStrip(SubSeq(s, 1, Len(s) - 1), ch) ELSE s

RECURSIVE LStrip(_, _)
LStrip(s, ch) ==
  IF s # "" /\ StartsWith(s, ch) THEN LStrip(Tail(s), ch) ELSE s

\* s.strip(), for the blank " "
Strip(s) == LStrip(RStrip(s, " "), " ")

RECURSIVE Replace(_, _, _)
\* s.replace(a, b) for one-character a
Replace(s, a, b) ==
  IF s = "" THEN ""
  ELSE (IF Head(s) = a THEN b ELSE Head(s)) \o Replace(Tail(s), a, b)

\* the characters of the names and patterns used here, in the order of their
\* code points
CodePointOrder ==
  " !*-./0123456789?ABCDEFGHIJKLMNOPQRSTUVWXYZ[\\]_abcdefghijklmnopqrstuvwxyz"

CodePointRank(c) ==
  CHOOSE i \in 1..Len(CodePointOrder) : SubSeq(CodePointOrder, i, i) = c

\* s[i], 1-based, as a string of one character
CharAt(s, i) == SubSeq(s, i, i)

\* fnmatch.translate on a pattern that begins with "[": the position of the
\* "]" that closes the character class, 0 when there is none and the "[" is
\* an ordinary character. A "]" right after "[" or "[!" does not close it.
ClassClose(pat) ==
  LET k1 == IF Len(pat) >= 2 /\ CharAt(pat, 2) = "!" THEN 3 ELSE 2
      k2 == IF Len(pat) >= k1 /\ CharAt(pat, k1) = "]" THEN k1 + 1 ELSE k1
      closers == { j \in k2..Len(pat) : CharAt(pat, j) = "]" }
  IN IF closers = {} THEN 0
     ELSE CHOOSE j \in closers : \A m \in closers : j <= m

RECURSIVE RangeHyphens(_, _)
\* fnmatch.translate: the hyphens of a class that pat.find('-', k, j) meets,
\* the search resuming three characters after each one
RangeHyphens(stuff, k) ==
  IF k > Len(stuff) THEN {}
  ELSE IF CharAt(stuff, k) = "-" THEN {k} \cup RangeHyphens(stuff, k + 3)
  ELSE RangeHyphens(stuff, k + 1)

\* whether the character c matches the class [stuff] that fnmatch.translate
\* builds: a hyphen it meets before the last character makes a range, a range
\* whose low end is above its high end is removed, a leading "!" of what is
\* left negates the class, every other character stands for itself
ClassMatches(c, stuff) ==
  LET hyphens == { h \in RangeHyphens(stuff,
                           IF CharAt(stuff, 1) = "!" THEN 3 ELSE 2) :
                     h < Len(stuff) }
      emptied == { h \in hyphens :
                     CodePointRank(CharAt(stuff, h - 1))
                       > CodePointRank(CharAt(stuff, h + 1)) }
      removed == UNION { {h - 1, h, h + 1} : h \in emptied }
      kept    == (1..Len(stuff)) \ removed
      first   == IF kept = {} THEN 0
                 ELSE CHOOSE p \in kept : \A q \in kept : p <= q
      negate  == first # 0 /\ CharAt(stuff, first) = "!"
      members == kept \ (IF negate THEN {first} ELSE {})
      inside  == \E p \in members :
                   IF p \in hyphens
                     THEN /\ CodePointRank(CharAt(stuff, p - 1))
                               <= CodePointRank(c)
                          /\ CodePointRank(c)
                               <= CodePointRank(CharAt(stuff, p + 1))
                     ELSE CharAt(stuff, p) = c
  IN IF negate THEN ~inside ELSE inside

RECURSIVE fnmatch(_, _)
\* fnmatch.fnmatch(name, pat) on a platform whose normcase is the identity:
\* "*" matches any run of characters, "?" any one character, "[...]" one
\* character of the class, every other character itself, and the whole name
\* must match
fnmatch(name, pat) ==
  IF pat = "" THEN name = ""
  ELSE IF Head(pat) = "*"
    THEN fnmatch(name, Tail(pat)) \/ (name # "" /\ fnmatch(Tail(name), pat))
  ELSE IF Head(pat) = "[" /\ ClassClose(pat) # 0
    THEN /\ name # ""
         /\ ClassMatches(CharAt(name, 1), SubSeq(pat, 2, ClassClose(pat) - 1))
         /\ fnmatch(Tail(name), SubSeq(pat, ClassClose(pat) + 1, Len(pat)))
    ELSE /\ name # ""
         /\ (Head(pat) = "?" \/ Head(pat) = Head(name))
         /\ fnmatch(Tail(name), Tail(pat))

\* posixpath.join(a, b)
PathJoin(a, b) ==
  IF StartsWith(b, "/") THEN b
  ELSE IF a = "" \/ EndsWith(a, "/") THEN a \o b
  ELSE a \o "/" \o b

RECURSIVE SeqSum(_)
SeqSum(s) == IF s = << >> THEN 0 ELSE Head(s) + SeqSum(Tail(s))

RECURSIVE Orderings(_)
\* every listing order of a set of directory entries
Orderings(S) ==
  IF S = {} THEN { << >> }
  ELSE UNION { { << x >> \o t : t \in Orderings(S \ {x}) } : x \in S }

RECURSIVE RemoveFirst(_, _)
\* list.remove(x): drops the first occurrence only
RemoveFirst(s, x) ==
  IF s = << >> THEN << >>
  ELSE IF Head(s) = x THEN Tail(s)
  ELSE << Head(s) >> \o RemoveFirst(Tail(s), x)

InList(s, x) == \E i \in 1..Len(s) : s[i] = x


(***************************************************************************)
(* State.                                                                  *)
(***************************************************************************)
VARIABLES
  \* the source file system under source_dir: the set of directory paths
  \* and the files, each path a sequence of names from the source root
  srcDirs, srcFiles,
  \* whether os.listdir(source_dir) succeeds
  srcListable,
  \* the destination file system under dest_dir: whether dest_dir exists,
  \* the directories, files (path string |-> content) and archives
  \* (path string |-> entry names) under it
  destExists, dstDirs, dstFiles, dstZips,
  \* the absolute paths main and the constructor work with
  source_dir, dest_dir,
  \* the --max-size string main is given, None without the option
  args_max_size,
  \* constructor arguments kept on the engine
  dry_run, use_zip, skip_existing, force, quiet, max_size, include_git,
  only_repos,
  \* the merged rule lists
  exclude_dirs, exclude_files,
  \* the statistics of the engine
  repos_found, total_files_copied, total_files_skipped, total_bytes_copied,
  preserved_files, symlinks_skipped, large_files_skipped, files_overwritten,
  files_skipped_existing, extension_stats,
  \* number of calls of _print_error, and number of "Overwriting:" warnings
  \* printed
  errors, warned,
  \* control: the position in main / run / the method called, the index of
  \* run's loop and the repository being processed
  pc, idx, repo_name,
  \* locals of _scan_repo: the result lists and the position of os.walk
  files_to_copy, skipped_stats, walkStack, dirpath, filenames,
  \* locals of _copy_repo and _zip_repo: loop index and byte count
  ci, bytes_out,
  \* the list objects EXCLUDE_DIRS and EXCLUDE_FILE_PATTERNS that gitmig.py
  \* imports, as they are now, and the number of engines constructed so far
  imported_dirs, imported_files, engines

modVars == << imported_dirs, imported_files, engines >>
srcVars == << srcDirs, srcFiles, srcListable >>
dstVars == << destExists, dstDirs, dstFiles, dstZips >>
optVars == << source_dir, dest_dir, args_max_size, dry_run, use_zip,
              skip_existing, force, quiet, max_size, include_git, only_repos, exclude_dirs,
              exclude_files >>
logVars == << errors, warned >>
totalVars == << repos_found, total_files_copied, total_files_skipped,
                total_bytes_copied >>
scanStats == << preserved_files, symlinks_skipped, large_files_skipped,
                extension_stats >>
copyStats == << files_overwritten, files_skipped_existing >>
scanVars == << files_to_copy, skipped_stats, walkStack, dirpath, filenames >>
xferVars == << ci, bytes_out >>
vars == << modVars, srcVars, dstVars, optVars, totalVars, scanStats,
           copyStats, logVars, pc, idx, repo_name, scanVars, xferVars >>

(***************************************************************************)
(* GitMigEngine.__init__: the merge of the rule lists.                     *)
(***************************************************************************)
RECURSIVE MergeDirs(_, _)
\* exclude_dirs after the loop over extra_excludes
MergeDirs(dirs, extra) ==
  IF extra = << >> THEN dirs
  ELSE LET pattern == Strip(Head(extra))
       IN  MergeDirs(IF EndsWith(pattern, "/")
                       THEN Append(dirs, RStrip(pattern, "/"))
                       ELSE dirs,
                     Tail(extra))

RECURSIVE MergeFiles(_, _)
\* exclude_files after the loop over extra_excludes
MergeFiles(files, extra) ==
  IF extra = << >> THEN files
  ELSE LET pattern == Strip(Head(extra))
       IN  MergeFiles(IF EndsWith(pattern, "/")
                        THEN files
                        ELSE Append(files, pattern),
                      Tail(extra))

\* self.exclude_dirs as __init__ leaves it
InitExcludeDirs(extra, incl_git) ==
  LET merged == MergeDirs(EXCLUDE_DIRS, extra)
  IN  IF incl_git /\ InList(merged, ".git")
        THEN RemoveFirst(merged, ".git")
        ELSE merged

\* self.exclude_files as __init__ leaves it
InitExcludeFiles(extra) == MergeFiles(EXCLUDE_FILE_PATTERNS, extra)

(***************************************************************************)
(* The rule checks.                                                        *)
(***************************************************************************)
\* variant: only the glob match is consulted, not the equality with the
\* pattern
_should_exclude_dir_GlobOnly(dirname) ==
  \E i \in 1..Len(exclude_dirs) : fnmatch(dirname, exclude_dirs[i])

_should_exclude_dir(dirname) ==
  \E i \in 1..Len(exclude_dirs) :
    fnmatch(dirname, exclude_dirs[i]) \/ dirname = exclude_dirs[i]

_should_exclude_file(filename) ==
  \E i \in 1..Len(exclude_files) : fnmatch(filename, exclude_files[i])

_should_preserve(filename) ==
  \E i \in 1..Len(PRESERVE_PATTERNS) : fnmatch(filename, PRESERVE_PATTERNS[i])

(***************************************************************************)
(* The source tree as os.listdir, os.walk, os.path.islink and              *)
(* os.path.getsize show it.                                                *)
(***************************************************************************)
IsPrefix(p, q) == Len(p) <= Len(q) /\ SubSeq(q, 1, Len(p)) = p

\* names of the subdirectories of directory p
ListDirs(p) ==
  { d[Len(d)] : d \in { q \in srcDirs : Len(q) = Len(p) + 1 /\ IsPrefix(p, q) } }

\* names of the files of directory p
ListFiles(p) ==
  { f[Len(f)] : f \in { q \in DOMAIN srcFiles :
                          Len(q) = Len(p) + 1 /\ IsPrefix(p, q) } }

\* sum(len(files) for _, _, files in os.walk(p))
WalkCount(p) == Cardinality({ f \in DOMAIN srcFiles : IsPrefix(p, f) })

RECURSIVE JoinNames(_)
\* the names of a path joined with os.sep
JoinNames(names) ==
  IF names = << >> THEN ""
  ELSE IF Len(names) = 1 THEN names[1]
  ELSE names[1] \o "/" \o JoinNames(Tail(names))

\* os.path.relpath(dirpath, repo_path), with "." turned into ""
RelDir(dp) == JoinNames(Tail(dp))

UpperLetters == "ABCDEFGHIJKLMNOPQRSTUVWXYZ"
LowerLetters == "abcdefghijklmnopqrstuvwxyz"

LowerChar(c) ==
  IF \E i \in 1..Len(UpperLetters) : SubSeq(UpperLetters, i, i) = c
    THEN LET i == CHOOSE j \in 1..Len(UpperLetters) :
                    SubSeq(UpperLetters, j, j) = c
         IN  SubSeq(LowerLetters, i, i)
    ELSE c

RECURSIVE Lower(_)
\* s.lower()
Lower(s) == IF s = "" THEN "" ELSE LowerChar(Head(s)) \o Lower(Tail(s))

\* os.path.splitext(f)[1] of a bare file name: from the last dot on, unless
\* only dots precede it
SplitExt(f) ==
  LET dots == { i \in 1..Len(f) : SubSeq(f, i, i) = "." }
      last == CHOOSE i \in dots : \A j \in dots : j <= i
  IN  IF dots # {} /\ (\E i \in 1..(last - 1) : SubSeq(f, i, i) # ".")
        THEN SubSeq(f, last, Len(f))
        ELSE ""

\* variant: the extension is not lowercased
ExtKey_KeepsCase(f) ==
  IF SplitExt(f) = "" THEN "(no ext)" ELSE SplitExt(f)

\* the key of extension_stats for file name f
ExtKey(f) ==
  IF Lower(SplitExt(f)) = "" THEN "(no ext)" ELSE Lower(SplitExt(f))

EmptyDict == [x \in {} |-> 0]

(***************************************************************************)
(* GitMigEngine._scan_repo                                                 *)
(***************************************************************************)
RECURSIVE TallyExcluded_Overwrite(_, _, _)
\* variant: the count of an excluded directory replaces the entry of its
\* name instead of being added to it
TallyExcluded_Overwrite(stats, dirnames, dp) ==
  IF dirnames = << >> THEN stats
  ELSE LET d == Head(dirnames)
       IN  TallyExcluded_Overwrite(
             IF _should_exclude_dir(d)
               THEN DictSet(stats, d, WalkCount(Append(dp, d)))
               ELSE stats,
             Tail(dirnames), dp)

RECURSIVE TallyExcluded(_, _, _)
\* skipped_stats after the loop over dirnames of directory dp
TallyExcluded(stats, dirnames, dp) ==
  IF dirnames = << >> THEN stats
  ELSE LET d == Head(dirnames)
       IN  TallyExcluded(
             IF _should_exclude_dir(d)
               THEN DictSet(stats, d,
                            DictGet(stats, d, 0) + WalkCount(Append(dp, d)))
               ELSE stats,
             Tail(dirnames), dp)

\* variant: excluded directories are tallied but not pruned from the walk
KeepDir_NoPrune(d) == TRUE

\* d stays in dirnames: it is not in dirs_to_remove
KeepDir(d) == ~ _should_exclude_dir(d)

\* the call of _scan_repo(repo_name): the result lists are empty and the
\* walk starts at the repository root
ScanBegin ==
  /\ pc = "scan"
  /\ files_to_copy' = << >>
  /\ skipped_stats' = EmptyDict
  /\ walkStack' = << << repo_name >> >>
  /\ dirpath' = << >>
  /\ filenames' = << >>
  /\ pc' = "walk"
  /\ UNCHANGED << modVars, srcVars, dstVars, optVars, totalVars, scanStats, copyStats,
                  logVars, idx, repo_name, xferVars >>

\* one iteration of "for dirpath, dirnames, filenames in walker" up to the
\* file loop: excluded directories are tallied and pruned from the walk
WalkDir ==
  /\ pc = "walk"
  /\ filenames = << >>
  /\ walkStack # << >>
  /\ LET top == Head(walkStack)
     IN  \E dirnames \in Orderings(ListDirs(top)),
            fnames \in Orderings(ListFiles(top)) :
           LET kept == SelectSeq(dirnames, KeepDir)
           IN  /\ skipped_stats' = TallyExcluded(skipped_stats, dirnames, top)
               /\ walkStack' = [i \in 1..Len(kept) |-> Append(top, kept[i])]
                                 \o Tail(walkStack)
               /\ dirpath' = top
               /\ filenames' = fnames
  /\ UNCHANGED << modVars, srcVars, dstVars, optVars, totalVars, scanStats, copyStats,
                  logVars, pc, idx, repo_name, files_to_copy, xferVars >>

\* variant: the exclusion patterns are consulted before the preservation
\* patterns
FileOutcome_ExcludeFirst(f, full_path) ==
  IF srcFiles[full_path].link THEN "symlink"
  ELSE IF Truthy(max_size) /\ srcFiles[full_path].size > max_size[1]
    THEN "large"
  ELSE IF _should_exclude_file(f) THEN "excluded"
  ELSE IF _should_preserve(f) THEN "preserved"
  ELSE "included"

\* variant: the preservation patterns are consulted before the symlink test
FileOutcome_PreserveFirst(f, full_path) ==
  IF _should_preserve(f) THEN "preserved"
  ELSE IF srcFiles[full_path].link THEN "symlink"
  ELSE IF Truthy(max_size) /\ srcFiles[full_path].size > max_size[1]
    THEN "large"
  ELSE IF ~ _should_exclude_file(f) THEN "included"
  ELSE "excluded"

\* the branch one iteration of "for f in filenames" takes for file f
FileOutcome(f, full_path) ==
  IF srcFiles[full_path].link THEN "symlink"
  ELSE IF Truthy(max_size) /\ srcFiles[full_path].size > max_size[1]
    THEN "large"
  ELSE IF _should_preserve(f) THEN "preserved"
  ELSE IF ~ _should_exclude_file(f) THEN "included"
  ELSE "excluded"

\* one iteration of "for f in filenames"
ScanFile ==
  /\ pc = "walk"
  /\ filenames # << >>
  /\ LET f == Head(filenames)
         rel_dir == RelDir(dirpath)
         rel_path == IF rel_dir # "" THEN PathJoin(rel_dir, f) ELSE f
         full_path == Append(dirpath, f)
         file_size == srcFiles[full_path].size
         outcome == FileOutcome(f, full_path)
         ext == ExtKey(f)
         old == DictGet(extension_stats, ext, [count |-> 0, bytes |-> 0])
     IN  /\ filenames' = Tail(filenames)
         /\ symlinks_skipped' =
              IF outcome = "symlink" THEN symlinks_skipped + 1
              ELSE symlinks_skipped
         /\ large_files_skipped' =
              IF outcome = "large" THEN large_files_skipped + 1
              ELSE large_files_skipped
         /\ files_to_copy' =
              IF outcome \in { "preserved", "included" }
                THEN Append(files_to_copy, << rel_path, file_size >>)
                ELSE files_to_copy
         /\ preserved_files' =
              IF outcome = "preserved"
                THEN Append(preserved_files, repo_name \o "/" \o rel_path)
                ELSE preserved_files
         /\ extension_stats' =
              IF outcome \in { "symlink", "large" } THEN extension_stats
              ELSE DictSet(extension_stats, ext,
                           [count |-> old.count + 1,
                            bytes |-> old.bytes + file_size])
  /\ UNCHANGED << modVars, srcVars, dstVars, optVars, totalVars, copyStats, logVars, pc,
                  idx, repo_name, skipped_stats, walkStack, dirpath, xferVars >>

\* the walk is exhausted: return files_to_copy, skipped_stats
ScanReturn ==
  /\ pc = "walk"
  /\ filenames = << >>
  /\ walkStack = << >>
  /\ pc' = "scanned"
  /\ UNCHANGED << modVars, srcVars, dstVars, optVars, totalVars, scanStats, copyStats,
                  logVars, idx, repo_name, scanVars, xferVars >>

(***************************************************************************)
(* GitMigEngine._copy_repo.  Destination paths are relative to dest_dir.   *)
(* The content of a source file is named after its path, a file that was   *)
(* at the destination before the run holds OldData, and a copy that failed *)
(* after the destination file was opened leaves PartialData.               *)
(***************************************************************************)
SrcData(src_file) == "bytes of " \o src_file
OldData == "old bytes"
PartialData == "partial bytes"

\* os.path.dirname
Dirname(path) ==
  LET cuts == { i \in 1..Len(path) : SubSeq(path, i, i) = "/" }
  IN  IF cuts = {} THEN ""
      ELSE LET last == CHOOSE i \in cuts : \A j \in cuts : j <= i
           IN  SubSeq(path, 1, last - 1)

\* the directories os.makedirs(dst_dir, exist_ok=True) makes sure of
MakeDirs(dst_dir) ==
  IF dst_dir = "" THEN {}
  ELSE { dst_dir }
         \cup { SubSeq(dst_dir, 1, i - 1) :
                  i \in { j \in 2..Len(dst_dir) : SubSeq(dst_dir, j, j) = "/" } }

\* what _copy_repo does with a candidate, from os.path.exists(dst_file)
CopyBranch_IgnoreSkipExisting(exists) ==
  IF exists THEN "overwrite" ELSE "create"

CopyBranch_NeverCounts(exists) ==
  IF exists /\ skip_existing THEN "skip" ELSE "create"

CopyBranch_ForceHidesOverwrite(exists) ==
  IF exists /\ skip_existing THEN "skip"
  ELSE IF exists /\ ~ force THEN "overwrite"
  ELSE "create"

CopyBranch(exists) ==
  IF exists /\ skip_existing THEN "skip"
  ELSE IF exists THEN "overwrite"
  ELSE "create"

\* entry of _copy_repo(repo_name, files_to_copy)
CopyBegin ==
  /\ pc = "copy"
  /\ pc' = "copying"
  /\ ci' = 1
  /\ bytes_out' = 0
  /\ UNCHANGED << modVars, srcVars, dstVars, optVars, totalVars, scanStats, copyStats,
                  logVars, idx, repo_name, scanVars >>

\* one iteration of the loop over files_to_copy.  os.makedirs can fail only
\* where the directory is missing; shutil.copy2 succeeds or raises, as the
\* file system decides: it can fail before the
\* destination file is opened (it stays as it was) or after (it is left
\* partial); every failure is caught and logged.
CopyFile ==
  /\ pc = "copying"
  /\ ci <= Len(files_to_copy)
  /\ LET rel_path == files_to_copy[ci][1]
         size == files_to_copy[ci][2]
         src_file == PathJoin(repo_name, rel_path)
         dst_file == PathJoin(repo_name, rel_path)
         dst_dir == Dirname(dst_file)
         exists == dst_file \in DOMAIN dstFiles
         branch == CopyBranch(exists)
     IN  \/ \* os.makedirs raises
            /\ dst_dir \notin dstDirs
            /\ errors' = errors + 1
            /\ UNCHANGED << dstVars, copyStats, warned, bytes_out >>
         \/ \* the destination exists and skip_existing is set
            /\ branch = "skip"
            /\ files_skipped_existing' = files_skipped_existing + 1
            /\ destExists' = TRUE
            /\ dstDirs' = dstDirs \cup MakeDirs(dst_dir)
            /\ UNCHANGED << dstFiles, dstZips, files_overwritten, logVars,
                            bytes_out >>
         \/ /\ branch # "skip"
            /\ files_overwritten' =
                 IF branch = "overwrite" THEN files_overwritten + 1
                 ELSE files_overwritten
            /\ warned' =
                 IF branch = "overwrite" /\ ~ force /\ ~ quiet THEN warned + 1
                 ELSE warned
            /\ destExists' = TRUE
            /\ dstDirs' = dstDirs \cup MakeDirs(dst_dir)
            /\ \/ \* shutil.copy2 succeeds
                  /\ dstFiles' = DictSet(dstFiles, dst_file, SrcData(src_file))
                  /\ bytes_out' = bytes_out + size
                  /\ UNCHANGED errors
               \/ \* shutil.copy2 raises before it opens the destination
                  /\ errors' = errors + 1
                  /\ UNCHANGED << dstFiles, bytes_out >>
               \/ \* shutil.copy2 raises after it opened the destination
                  /\ errors' = errors + 1
                  /\ dstFiles' = DictSet(dstFiles, dst_file, PartialData)
                  /\ UNCHANGED bytes_out
            /\ UNCHANGED << dstZips, files_skipped_existing >>
  /\ ci' = ci + 1
  /\ UNCHANGED << modVars, srcVars, optVars, totalVars, scanStats, pc, idx, repo_name,
                  scanVars >>

CopyReturn_AfterError ==
  /\ pc = "copying"
  /\ (ci > Len(files_to_copy) \/ errors > 0)
  /\ pc' = "copied"
  /\ UNCHANGED << modVars, srcVars, dstVars, optVars, totalVars, scanStats, copyStats,
                  logVars, idx, repo_name, scanVars, xferVars >>

\* the loop is over: return bytes_copied
CopyReturn ==
  /\ pc = "copying"
  /\ ci > Len(files_to_copy)
  /\ pc' = "copied"
  /\ UNCHANGED << modVars, srcVars, dstVars, optVars, totalVars, scanStats, copyStats,
                  logVars, idx, repo_name, scanVars, xferVars >>

(***************************************************************************)
(* GitMigEngine._zip_repo.  An archive is the sequence of the entry names  *)
(* handed to ZipFile.write, in the order written.                          *)
(***************************************************************************)
ZipPath(name) == name \o ".zip"

\* the test that makes _zip_repo skip a candidate
UnsafePath_OnlyLeading(rel_path) ==
  StartsWith(rel_path, "/") \/ StartsWith(rel_path, "\\")

UnsafePath(rel_path) ==
  \/ Contains(rel_path, "..")
  \/ StartsWith(rel_path, "/")
  \/ StartsWith(rel_path, "\\")

\* the entry name of a candidate
ArcName(name, rel_path) == Replace(PathJoin(name, rel_path), "\\", "/")

\* what os.path.getsize can return for an archive that was just closed
ArchiveSizes == 1..MaxArchiveSize

\* zipfile.ZipFile(zip_path, "w"): the archive is created or truncated, or
\* the call raises (it always does where dest_dir is missing), which is
\* logged and makes _zip_repo return 0
ZipOpen ==
  /\ pc = "zip"
  /\ \/ /\ destExists
        /\ dstZips' = DictSet(dstZips, ZipPath(repo_name), << >>)
        /\ pc' = "zipping"
        /\ ci' = 1
        /\ UNCHANGED << errors, bytes_out >>
     \/ /\ errors' = errors + 1
        /\ bytes_out' = 0
        /\ pc' = "zipped"
        /\ UNCHANGED << dstZips, ci >>
  /\ UNCHANGED << modVars, srcVars, destExists, dstDirs, dstFiles, optVars, totalVars,
                  scanStats, copyStats, warned, idx, repo_name, scanVars >>

\* one iteration of the loop over files_to_copy: an unsafe path is logged
\* and skipped; ZipFile.write succeeds or raises, as the file system
\* decides, and a write that raises ends the archive with the entries
\* written so far, is logged and makes _zip_repo return 0
ZipEntry ==
  /\ pc = "zipping"
  /\ ci <= Len(files_to_copy)
  /\ LET rel_path == files_to_copy[ci][1]
         arc_name == ArcName(repo_name, rel_path)
         zip_path == ZipPath(repo_name)
     IN  IF UnsafePath(rel_path)
           THEN /\ errors' = errors + 1
                /\ ci' = ci + 1
                /\ UNCHANGED << dstZips, pc, bytes_out >>
           ELSE \/ /\ dstZips' = DictSet(dstZips, zip_path,
                                         Append(dstZips[zip_path], arc_name))
                   /\ ci' = ci + 1
                   /\ UNCHANGED << errors, pc, bytes_out >>
                \/ /\ errors' = errors + 1
                   /\ bytes_out' = 0
                   /\ pc' = "zipped"
                   /\ UNCHANGED << dstZips, ci >>
  /\ UNCHANGED << modVars, srcVars, destExists, dstDirs, dstFiles, optVars, totalVars,
                  scanStats, copyStats, warned, idx, repo_name, scanVars >>

\* the loop is over: the archive is closed and its size returned, or the
\* close or the stat raises, which is logged and makes _zip_repo return 0
ZipClose ==
  /\ pc = "zipping"
  /\ ci > Len(files_to_copy)
  /\ \/ /\ bytes_out' \in ArchiveSizes
        /\ UNCHANGED errors
     \/ /\ bytes_out' = 0
        /\ errors' = errors + 1
  /\ pc' = "zipped"
  /\ UNCHANGED << modVars, srcVars, dstVars, optVars, totalVars, scanStats, copyStats,
                  warned, idx, repo_name, scanVars, ci >>

(***************************************************************************)
(* GitMigEngine._find_repos, GitMigEngine.run and main.                    *)
(***************************************************************************)
RECURSIVE StrLess(_, _)
\* a < b on str
StrLess(a, b) ==
  IF b = "" THEN FALSE
  ELSE IF a = "" THEN TRUE
  ELSE IF SubSeq(a, 1, 1) = SubSeq(b, 1, 1)
    THEN StrLess(SubSeq(a, 2, Len(a)), SubSeq(b, 2, Len(b)))
  ELSE CodePointRank(SubSeq(a, 1, 1)) < CodePointRank(SubSeq(b, 1, 1))

RECURSIVE Sorted(_)
\* sorted(names) for a set of distinct names
Sorted(names) ==
  IF names = {} THEN << >>
  ELSE LET m == CHOOSE x \in names : \A y \in names \ { x } : StrLess(x, y)
       IN  << m >> \o Sorted(names \ { m })

\* os.listdir(source_dir)
SourceListing ==
  { q[1] : q \in { p \in srcDirs \cup DOMAIN srcFiles : Len(p) = 1 } }

\* the entry is a directory that holds a directory .git, and passes the
\* --only filter when there is one
IsWantedRepo(entry) ==
  /\ << entry >> \in srcDirs
  /\ << entry, ".git" >> \in srcDirs
  /\ ~ (only_repos # None /\ only_repos[1] # << >>
          /\ ~ InList(only_repos[1], entry))

\* the repositories in sorted order, none where the listing raises
\* PermissionError
_find_repos ==
  IF srcListable THEN SelectSeq(Sorted(SourceListing), IsWantedRepo)
  ELSE << >>

RECURSIVE DictSum(_)
\* sum(d.values())
DictSum(d) ==
  IF DOMAIN d = {} THEN 0
  ELSE LET k == CHOOSE x \in DOMAIN d : TRUE
       IN  d[k] + DictSum([x \in DOMAIN d \ { k } |-> d[x]])

\* run's total_bytes: sum(size for _, size in files_to_copy)
total_bytes_CountsFiles(files) ==
  Len(files)

total_bytes(files) ==
  SeqSum([i \in 1..Len(files) |-> files[i][2]])

\* what run does with the scanned repository
TransferBranch_NoPreview ==
  IF use_zip THEN "zip" ELSE "copy"

TransferBranch ==
  IF ~ dry_run THEN (IF use_zip THEN "zip" ELSE "copy") ELSE "preview"

(***************************************************************************)
(* main: the parse of --max-size.  A float is kept exactly, as a sign, an  *)
(* integer part q and a fraction r / 10^k; the mantissas used here are     *)
(* exact as binary floats too.                                             *)
(***************************************************************************)
Digits == "0123456789"

IsDigits(s) ==
  /\ s # ""
  /\ \A i \in 1..Len(s) : \E j \in 1..Len(Digits) :
       SubSeq(s, i, i) = SubSeq(Digits, j, j)

RECURSIVE DigitsValue(_)
\* the number a string of digits denotes; 0 for the empty string
DigitsValue(s) ==
  IF s = "" THEN 0
  ELSE LET c == SubSeq(s, Len(s), Len(s))
           v == (CHOOSE j \in 1..Len(Digits) : SubSeq(Digits, j, j) = c) - 1
       IN  DigitsValue(SubSeq(s, 1, Len(s) - 1)) * 10 + v

\* the decimal string of a number below 10
DigitStr(n) == SubSeq(Digits, n + 1, n + 1)

\* a --max-size string that yields the ceiling, None for no ceiling
ArgOf(ceiling) == IF ceiling = None THEN None ELSE Some(DigitStr(ceiling[1]))

UpperChar(c) ==
  IF \E i \in 1..Len(LowerLetters) : SubSeq(LowerLetters, i, i) = c
    THEN LET i == CHOOSE j \in 1..Len(LowerLetters) :
                    SubSeq(LowerLetters, j, j) = c
         IN  SubSeq(UpperLetters, i, i)
    ELSE c

RECURSIVE Upper(_)
\* s.upper()
Upper(s) == IF s = "" THEN "" ELSE UpperChar(Head(s)) \o Upper(Tail(s))

\* s without an optional leading sign
Unsigned(s) ==
  IF StartsWith(s, "-") \/ StartsWith(s, "+") THEN Tail(s) ELSE s

\* int(s) for a str: None where it raises ValueError
ParseInt(s) ==
  LET t == Strip(s)
      body == Unsigned(t)
  IN  IF ~ IsDigits(body) THEN None
      ELSE IF StartsWith(t, "-") THEN Some(0 - DigitsValue(body))
      ELSE Some(DigitsValue(body))

\* float(s) for a str in decimal notation without exponent: None where it
\* raises ValueError
ParseFloat(s) ==
  LET t == Strip(s)
      body == Unsigned(t)
      dots == { i \in 1..Len(body) : SubSeq(body, i, i) = "." }
      dot == IF dots = {} THEN Len(body) + 1 ELSE CHOOSE i \in dots : TRUE
      whole == SubSeq(body, 1, dot - 1)
      frac == SubSeq(body, dot + 1, Len(body))
  IN  IF \/ Cardinality(dots) > 1
         \/ (whole = "" /\ frac = "")
         \/ (whole # "" /\ ~ IsDigits(whole))
         \/ (frac # "" /\ ~ IsDigits(frac))
        THEN None
        ELSE Some([neg |-> StartsWith(t, "-"), q |-> DigitsValue(whole),
                   r |-> DigitsValue(frac), k |-> Len(frac)])

\* x * 1024 on a float
Times1024(x) ==
  [neg |-> x.neg, q |-> x.q * 1024 + (x.r * 1024) \div (10 ^ x.k),
   r |-> (x.r * 1024) % (10 ^ x.k), k |-> x.k]

\* int(x) on a float: towards zero
IntOf(x) == IF x.neg THEN 0 - x.q ELSE x.q

\* int(float(s) * 1024 ...) with the given number of factors 1024
ScaledInt(s, factors) ==
  LET x == ParseFloat(s)
  IN  IF x = None THEN None
      ELSE IF factors = 3 THEN Some(IntOf(Times1024(Times1024(Times1024(x[1])))))
      ELSE IF factors = 2 THEN Some(IntOf(Times1024(Times1024(x[1]))))
      ELSE Some(IntOf(Times1024(x[1])))

\* the parse of args.max_size: the value of max_size, or "ValueError"
ParseMaxSize(arg) ==
  IF arg = None \/ arg[1] = "" THEN [ok |-> TRUE, value |-> None]
  ELSE LET size_str == Strip(Upper(arg[1]))
           stem == SubSeq(size_str, 1, Len(size_str) - 1)
           v == IF EndsWith(size_str, "G") THEN ScaledInt(stem, 3)
                ELSE IF EndsWith(size_str, "M") THEN ScaledInt(stem, 2)
                ELSE IF EndsWith(size_str, "K") THEN ScaledInt(stem, 1)
                ELSE ParseInt(size_str)
       IN  IF v = None THEN [ok |-> FALSE, value |-> None]
           ELSE [ok |-> TRUE, value |-> v]

\* main up to the validation of the paths: parse --max-size, exit with
\* status 1 where the parse raises ValueError
ParseArgs ==
  /\ pc = "args"
  /\ LET parsed == ParseMaxSize(args_max_size)
     IN  IF parsed.ok
           THEN max_size' = parsed.value /\ pc' = "main"
           ELSE pc' = "exit1" /\ UNCHANGED max_size
  /\ UNCHANGED << modVars, srcVars, dstVars, source_dir, dest_dir, args_max_size,
                  dry_run, use_zip, skip_existing, force, quiet, include_git,
                  only_repos, exclude_dirs, exclude_files, totalVars,
                  scanStats, copyStats, logVars, idx, repo_name, scanVars,
                  xferVars >>

\* main from the validation of the destination on, for a source that is a
\* directory and a destination that is a directory or missing: refuse a
\* destination inside the source, create a missing destination unless this
\* is a dry run, construct the engine and call run
Main ==
  /\ pc = "main"
  /\ IF StartsWith(dest_dir, source_dir \o "/") \/ dest_dir = source_dir
       THEN pc' = "exit1" /\ UNCHANGED destExists
     ELSE IF ~ dry_run /\ ~ destExists
       THEN \/ destExists' = TRUE /\ pc' = "run"
            \/ pc' = "exit1" /\ UNCHANGED destExists
     ELSE pc' = "run" /\ UNCHANGED destExists
  /\ UNCHANGED << modVars, srcVars, dstDirs, dstFiles, dstZips, optVars, totalVars,
                  scanStats, copyStats, logVars, idx, repo_name, scanVars,
                  xferVars >>

\* run up to its loop: discover the repositories, return when there is none
RunStart ==
  /\ pc = "run"
  /\ repos_found' = _find_repos
  /\ IF repos_found' = << >>
       THEN pc' = "exit0" /\ UNCHANGED << idx, repo_name >>
       ELSE idx' = 1 /\ repo_name' = repos_found'[1] /\ pc' = "scan"
  /\ UNCHANGED << modVars, srcVars, dstVars, optVars, total_files_copied,
                  total_files_skipped, total_bytes_copied, scanStats,
                  copyStats, logVars, scanVars, xferVars >>

FinishRepo_StopOnError ==
  /\ total_files_copied' = total_files_copied + Len(files_to_copy)
  /\ total_files_skipped' = total_files_skipped + DictSum(skipped_stats)
  /\ IF idx < Len(repos_found) /\ errors = 0
       THEN idx' = idx + 1 /\ repo_name' = repos_found[idx + 1] /\ pc' = "scan"
       ELSE pc' = "summary" /\ UNCHANGED << idx, repo_name >>

\* variant: the candidates whose transfer logged an error are not counted
FinishRepo_CountsSuccesses ==
  /\ total_files_copied' = total_files_copied + Len(files_to_copy) - errors
  /\ total_files_skipped' = total_files_skipped + DictSum(skipped_stats)
  /\ IF idx < Len(repos_found)
       THEN idx' = idx + 1 /\ repo_name' = repos_found[idx + 1] /\ pc' = "scan"
       ELSE pc' = "summary" /\ UNCHANGED << idx, repo_name >>

\* variant: the loop does not advance to the next repository
FinishRepo_Repeats ==
  /\ total_files_copied' = total_files_copied + Len(files_to_copy)
  /\ total_files_skipped' = total_files_skipped + DictSum(skipped_stats)
  /\ IF idx < Len(repos_found)
       THEN pc' = "scan" /\ UNCHANGED << idx, repo_name >>
       ELSE pc' = "summary" /\ UNCHANGED << idx, repo_name >>

\* the end of an iteration of run's loop: count the candidates and the
\* files of excluded directories, go on with the next repository
FinishRepo ==
  /\ total_files_copied' = total_files_copied + Len(files_to_copy)
  /\ total_files_skipped' = total_files_skipped + DictSum(skipped_stats)
  /\ IF idx < Len(repos_found)
       THEN idx' = idx + 1 /\ repo_name' = repos_found[idx + 1] /\ pc' = "scan"
       ELSE pc' = "summary" /\ UNCHANGED << idx, repo_name >>

\* run after _scan_repo returned: call _zip_repo or _copy_repo, or in a dry
\* run add the scanned bytes and finish the iteration
RunTransfer ==
  /\ pc = "scanned"
  /\ IF TransferBranch = "preview"
       THEN /\ total_bytes_copied' =
                 total_bytes_copied + total_bytes(files_to_copy)
            /\ FinishRepo
       ELSE /\ pc' = TransferBranch
            /\ UNCHANGED << total_files_copied, total_files_skipped,
                            total_bytes_copied, idx, repo_name >>
  /\ UNCHANGED << modVars, srcVars, dstVars, optVars, repos_found, scanStats,
                  copyStats, logVars, scanVars, xferVars >>

\* run after _zip_repo or _copy_repo returned bytes_out
RunAccumulate ==
  /\ pc \in { "copied", "zipped" }
  /\ total_bytes_copied' = total_bytes_copied + bytes_out
  /\ FinishRepo
  /\ UNCHANGED << modVars, srcVars, dstVars, optVars, repos_found, scanStats,
                  copyStats, logVars, scanVars, xferVars >>

\* _print_summary, and the normal end of main
RunSummary ==
  /\ pc = "summary"
  /\ pc' = "exit0"
  /\ UNCHANGED << modVars, srcVars, dstVars, optVars, totalVars, scanStats, copyStats,
                  logVars, idx, repo_name, scanVars, xferVars >>

\* variant: the handler of the interrupt removes what the run has written
Interrupt_RollsBack ==
  /\ pc \in { "run", "scan", "walk", "scanned", "copy", "copying", "copied",
              "zip", "zipping", "zipped", "summary" }
  /\ pc' = "exit1"
  /\ dstDirs' = {}
  /\ dstFiles' = EmptyDict
  /\ dstZips' = EmptyDict
  /\ UNCHANGED << modVars, srcVars, destExists, optVars, totalVars, scanStats,
                  copyStats, logVars, idx, repo_name, scanVars, xferVars >>

\* KeyboardInterrupt while engine.run executes: main exits with status 1
Interrupt ==
  /\ pc \in { "run", "scan", "walk", "scanned", "copy", "copying", "copied",
              "zip", "zipping", "zipped", "summary" }
  /\ pc' = "exit1"
  /\ UNCHANGED << modVars, srcVars, dstVars, optVars, totalVars, scanStats, copyStats,
                  logVars, idx, repo_name, scanVars, xferVars >>

(***************************************************************************)
(* Direct calls of _scan_repo("r1") on a repository r1, as the unit tests  *)
(* make them: r1 holds .git/HEAD, a file slot at the root, a directory n1  *)
(* with a file slot, a directory n1/n2 with a file slot and a second       *)
(* top-level directory n3 with a file slot.                                *)
(***************************************************************************)
ScanDirNames == { "src", "node_modules" }
ScanFileNames == { "a.py", "x.log", ".env", ".env.log" }
DeepFileNames == { "a.py", ".env.log" }
ExtraExcludeChoices == { << >>, << ".env*", " src/ " >> }

\* a file of the source tree: its name, what os.path.getsize returns and
\* whether os.path.islink holds; the name "" stands for an empty slot
Absent == [name |-> "", size |-> 0, link |-> FALSE]
RegularFiles(names, sizes) == [name : names, size : sizes, link : { FALSE }]
Symlinks(names) == [name : names, size : { 0 }, link : { TRUE }]

\* the function with the given set of << key, value >> pairs
DictOf(pairs) ==
  [k \in { x[1] : x \in pairs } |-> (CHOOSE x \in pairs : x[1] = k)[2]]

FileRec(k) == [size |-> k.size, link |-> k.link]

\* the files of a tree, from the << directory, kind >> slots that are filled
TreeFiles(slots) ==
  DictOf({ << Append(x[1], x[2].name), FileRec(x[2]) >> :
             x \in { y \in slots : y[2].name # "" } })

Head1 == [name |-> "HEAD", size |-> 1, link |-> FALSE]

ScanTreeDirs(n1, n2, n3) ==
  { << "r1" >>, << "r1", ".git" >>, << "r1", n1 >> }
    \cup (IF n2 # "" THEN { << "r1", n1, n2 >> } ELSE {})
    \cup (IF n3 # "" THEN { << "r1", n3 >> } ELSE {})

ScanTreeFiles(n1, n2, n3, k0, k1, k2, k3) ==
  TreeFiles({ << << "r1", ".git" >>, Head1 >>,
              << << "r1" >>, k0 >>,
              << << "r1", n1 >>, k1 >> }
            \cup (IF n2 # "" THEN { << << "r1", n1, n2 >>, k2 >> } ELSE {})
            \cup (IF n3 # "" THEN { << << "r1", n3 >>, k3 >> } ELSE {}))

MaxSizeChoices == { None } \cup { Some(n) : n \in 0..MaxCeiling }

\* the imported lists as gitmig_config defines them, in a process that
\* constructs one engine
OneEngine ==
  /\ imported_dirs = EXCLUDE_DIRS
  /\ imported_files = EXCLUDE_FILE_PATTERNS
  /\ engines = 1

\* the engine's statistics and locals right after construction
FreshEngine ==
  /\ repos_found = << >>
  /\ total_files_copied = 0
  /\ total_files_skipped = 0
  /\ total_bytes_copied = 0
  /\ preserved_files = << >>
  /\ symlinks_skipped = 0
  /\ large_files_skipped = 0
  /\ files_overwritten = 0
  /\ files_skipped_existing = 0
  /\ extension_stats = EmptyDict
  /\ errors = 0
  /\ warned = 0
  /\ idx = 0
  /\ files_to_copy = << >>
  /\ skipped_stats = EmptyDict
  /\ walkStack = << >>
  /\ dirpath = << >>
  /\ filenames = << >>
  /\ ci = 0
  /\ bytes_out = 0

InitScan ==
  /\ OneEngine
  /\ \E n1 \in ScanDirNames, n2 \in ScanDirNames \cup { "" } :
       \E n3 \in (ScanDirNames \ { n1 }) \cup { "" } :
         \E k0 \in RegularFiles(ScanFileNames, 0..MaxFileSize)
                      \cup Symlinks(ScanFileNames) \cup { Absent },
            k1 \in RegularFiles(DeepFileNames, { 1 })
                      \cup Symlinks(DeepFileNames) \cup { Absent },
            k2 \in RegularFiles({ ".env.log" }, { 1 }) \cup { Absent },
            k3 \in RegularFiles({ "a.py" }, { 1 }) \cup { Absent } :
           /\ srcDirs = ScanTreeDirs(n1, n2, n3)
           /\ srcFiles = ScanTreeFiles(n1, n2, n3, k0, k1, k2, k3)
  /\ srcListable = TRUE
  /\ destExists = TRUE
  /\ dstDirs = {}
  /\ dstFiles = EmptyDict
  /\ dstZips = EmptyDict
  /\ source_dir = "/s"
  /\ dest_dir = "/d"
  /\ dry_run = FALSE
  /\ use_zip = FALSE
  /\ skip_existing = FALSE
  /\ force = FALSE
  /\ quiet = FALSE
  /\ max_size \in MaxSizeChoices
  /\ args_max_size = ArgOf(max_size)
  /\ include_git = FALSE
  /\ only_repos = None
  /\ \E extra \in ExtraExcludeChoices :
       /\ exclude_dirs = InitExcludeDirs(extra, include_git)
       /\ exclude_files = InitExcludeFiles(extra)
  /\ FreshEngine
  /\ repo_name = "r1"
  /\ pc = "scan"

NextScan == ScanBegin \/ WalkDir \/ ScanFile \/ ScanReturn

SpecScan == InitScan /\ [][NextScan]_vars

(***************************************************************************)
(* Direct calls of _copy_repo("r1", files) with the candidates a scan of   *)
(* r1 returns, into a destination that may hold older files.               *)
(***************************************************************************)
CopyTreeDirs == { << "r1" >>, << "r1", ".git" >>, << "r1", "src" >> }

CopyTreeFiles(s1) ==
  TreeFiles({ << << "r1", ".git" >>, Head1 >>,
              << << "r1" >>, [name |-> "a.py", size |-> s1, link |-> FALSE] >>,
              << << "r1", "src" >>,
                 [name |-> "b.py", size |-> 1, link |-> FALSE] >> })

\* the candidate lists over the two files, as << rel_path, size >>
CopyCandidates(s1) ==
  LET a == << "a.py", s1 >>
      b == << "src/b.py", 1 >>
  IN  { << >>, << a >>, << b >>, << a, b >>, << b, a >> }

\* a destination holding older versions of the given files
OldFiles(paths) == [p \in paths |-> OldData]
OldDirs(paths) == UNION { MakeDirs(Dirname(p)) : p \in paths }

InitCopy ==
  /\ OneEngine
  /\ \E s1 \in 0..MaxFileSize :
       /\ srcDirs = CopyTreeDirs
       /\ srcFiles = CopyTreeFiles(s1)
       /\ files_to_copy \in CopyCandidates(s1)
  /\ \E old \in SUBSET { "r1/a.py", "r1/src/b.py" } :
       /\ dstFiles = OldFiles(old)
       /\ dstDirs = OldDirs(old)
  /\ srcListable = TRUE
  /\ destExists = TRUE
  /\ dstZips = EmptyDict
  /\ source_dir = "/s"
  /\ dest_dir = "/d"
  /\ dry_run = FALSE
  /\ use_zip = FALSE
  /\ skip_existing \in BOOLEAN
  /\ force \in BOOLEAN
  /\ quiet \in BOOLEAN
  /\ max_size = None
  /\ args_max_size = ArgOf(max_size)
  /\ include_git = FALSE
  /\ only_repos = None
  /\ exclude_dirs = InitExcludeDirs(<< >>, include_git)
  /\ exclude_files = InitExcludeFiles(<< >>)
  /\ repos_found = << >>
  /\ total_files_copied = 0
  /\ total_files_skipped = 0
  /\ total_bytes_copied = 0
  /\ preserved_files = << >>
  /\ symlinks_skipped = 0
  /\ large_files_skipped = 0
  /\ files_overwritten = 0
  /\ files_skipped_existing = 0
  /\ extension_stats = EmptyDict
  /\ errors = 0
  /\ warned = 0
  /\ idx = 0
  /\ skipped_stats = EmptyDict
  /\ walkStack = << >>
  /\ dirpath = << >>
  /\ filenames = << >>
  /\ ci = 0
  /\ bytes_out = 0
  /\ repo_name = "r1"
  /\ pc = "copy"

NextCopy == CopyBegin \/ CopyFile \/ CopyReturn

SpecCopy == InitCopy /\ [][NextCopy]_vars

(***************************************************************************)
(* Direct calls of _zip_repo("r1", files) with candidate lists that hold   *)
(* arbitrary relative paths: every string of 1..MaxPathLen characters over *)
(* PathChars, alone, before or after one of two fixed candidates.          *)
(***************************************************************************)
PathChars == { "a", ".", "/", "\\" }

RECURSIVE PathsOfLen(_)
PathsOfLen(n) ==
  IF n = 0 THEN { "" }
  ELSE { c \o p : c \in PathChars, p \in PathsOfLen(n - 1) }

AnyPaths == UNION { PathsOfLen(n) : n \in 1..MaxPathLen }

ZipCandidates ==
  LET Cand(p) == << p, 1 >>
  IN  { << Cand(p) >> : p \in AnyPaths }
        \cup { << Cand(p), Cand(q) >> :
                 p \in AnyPaths, q \in { "ok.txt", "../x" } }
        \cup { << Cand(q), Cand(p) >> :
                 p \in AnyPaths, q \in { "ok.txt", "../x" } }

InitZip ==
  /\ OneEngine
  /\ srcDirs = { << "r1" >>, << "r1", ".git" >> }
  /\ srcFiles = TreeFiles({ << << "r1", ".git" >>, Head1 >>,
                            << << "r1" >>,
                               [name |-> "ok.txt", size |-> 1,
                                link |-> FALSE] >> })
  /\ files_to_copy \in ZipCandidates
  /\ srcListable = TRUE
  /\ destExists = TRUE
  /\ dstDirs = {}
  /\ dstFiles = EmptyDict
  /\ dstZips = EmptyDict
  /\ source_dir = "/s"
  /\ dest_dir = "/d"
  /\ dry_run = FALSE
  /\ use_zip = TRUE
  /\ skip_existing = FALSE
  /\ force = FALSE
  /\ quiet = FALSE
  /\ max_size = None
  /\ args_max_size = ArgOf(max_size)
  /\ include_git = FALSE
  /\ only_repos = None
  /\ exclude_dirs = InitExcludeDirs(<< >>, include_git)
  /\ exclude_files = InitExcludeFiles(<< >>)
  /\ repos_found = << >>
  /\ total_files_copied = 0
  /\ total_files_skipped = 0
  /\ total_bytes_copied = 0
  /\ preserved_files = << >>
  /\ symlinks_skipped = 0
  /\ large_files_skipped = 0
  /\ files_overwritten = 0
  /\ files_skipped_existing = 0
  /\ extension_stats = EmptyDict
  /\ errors = 0
  /\ warned = 0
  /\ idx = 0
  /\ skipped_stats = EmptyDict
  /\ walkStack = << >>
  /\ dirpath = << >>
  /\ filenames = << >>
  /\ ci = 0
  /\ bytes_out = 0
  /\ repo_name = "r1"
  /\ pc = "zip"

NextZip == ZipOpen \/ ZipEntry \/ ZipClose

SpecZip == InitZip /\ [][NextZip]_vars

(***************************************************************************)
(* Runs of main.  The source holds the repository r1 (a file slot at its   *)
(* root and possibly a directory node_modules with a file), possibly a     *)
(* second repository r2, and a directory docs that is no repository; the   *)
(* destination is missing, empty, or holds an older r1/a.py.               *)
(***************************************************************************)
RunRootKinds ==
  RegularFiles({ "a.py" }, 0..MaxFileSize)
    \cup RegularFiles({ "x.log" }, { 1 }) \cup Symlinks({ "a.py" })
    \cup { Absent }

RunTreeDirs(n1, two) ==
  { << "r1" >>, << "r1", ".git" >>, << "docs" >> }
    \cup (IF n1 # "" THEN { << "r1", n1 >> } ELSE {})
    \cup (IF two THEN { << "r2" >>, << "r2", ".git" >> } ELSE {})

RunTreeFiles(n1, two, k0) ==
  LET One(name) == [name |-> name, size |-> 1, link |-> FALSE]
  IN  TreeFiles({ << << "r1", ".git" >>, Head1 >>,
                  << << "r1" >>, k0 >>,
                  << << "docs" >>, One("a.py") >> }
                \cup (IF n1 # "" THEN { << << "r1", n1 >>, One("b.py") >> }
                      ELSE {})
                \cup (IF two THEN { << << "r2", ".git" >>, Head1 >>,
                                    << << "r2" >>, One("a.py") >> }
                      ELSE {}))

Init ==
  /\ OneEngine
  /\ \E n1 \in { "node_modules", "" }, two \in BOOLEAN, k0 \in RunRootKinds :
       /\ srcDirs = RunTreeDirs(n1, two)
       /\ srcFiles = RunTreeFiles(n1, two, k0)
  /\ srcListable \in BOOLEAN
  /\ source_dir = "/s"
  /\ dest_dir \in { "/d", "/s/d" }
  /\ destExists \in BOOLEAN
  /\ \E old \in SUBSET { "r1/a.py" } :
       /\ old # {} => destExists
       /\ dstFiles = OldFiles(old)
       /\ dstDirs = OldDirs(old)
  /\ dstZips = EmptyDict
  /\ dry_run \in BOOLEAN
  /\ use_zip \in BOOLEAN
  /\ skip_existing \in BOOLEAN
  /\ force = FALSE
  /\ quiet = FALSE
  /\ max_size \in { None, Some(MaxCeiling) }
  /\ args_max_size = ArgOf(max_size)
  /\ include_git = FALSE
  /\ only_repos = None
  /\ exclude_dirs = InitExcludeDirs(<< >>, include_git)
  /\ exclude_files = InitExcludeFiles(<< >>)
  /\ FreshEngine
  /\ repo_name = ""
  /\ pc = "main"

Next ==
  \/ Main
  \/ RunStart
  \/ ScanBegin
  \/ WalkDir
  \/ ScanFile
  \/ ScanReturn
  \/ RunTransfer
  \/ CopyBegin
  \/ CopyFile
  \/ CopyReturn
  \/ ZipOpen
  \/ ZipEntry
  \/ ZipClose
  \/ RunAccumulate
  \/ RunSummary
  \/ Interrupt

Spec == Init /\ [][Next]_vars

\* the steps main and the engine take by themselves
Proceed ==
  \/ Main
  \/ RunStart
  \/ ScanBegin
  \/ WalkDir
  \/ ScanFile
  \/ ScanReturn
  \/ RunTransfer
  \/ CopyBegin
  \/ CopyFile
  \/ CopyReturn
  \/ ZipOpen
  \/ ZipEntry
  \/ ZipClose
  \/ RunAccumulate
  \/ RunSummary

\* the runs of main in which the sequential program goes on as long as it
\* has a step to take; an interrupt may come at any time or never
FairSpec == Spec /\ WF_vars(Proceed)

(***************************************************************************)
(* Direct calls of _find_repos through run: each of three names is absent  *)
(* from the source, a plain file, a directory, a directory that holds a    *)
(* file .git or a directory that holds a directory .git.                   *)
(***************************************************************************)
FindNames == { "a", "B", "a.b" }
FindKinds == { "absent", "file", "dir", "gitfile", "repo" }
OnlyChoices ==
  { None, Some(<< >>), Some(<< "a" >>), Some(<< "a.b", "B" >>),
    Some(<< "zz" >>) }

FindTreeDirs(kind) ==
  { << n >> : n \in { m \in FindNames : kind[m] \in { "dir", "gitfile", "repo" } } }
    \cup { << n, ".git" >> : n \in { m \in FindNames : kind[m] = "repo" } }

FindTreeFiles(kind) ==
  LET One == [size |-> 1, link |-> FALSE]
  IN  DictOf({ << << n >>, One >> :
                 n \in { m \in FindNames : kind[m] = "file" } }
             \cup { << << n, ".git" >>, One >> :
                      n \in { m \in FindNames : kind[m] = "gitfile" } }
             \cup { << << n, ".git", "HEAD" >>, One >> :
                      n \in { m \in FindNames : kind[m] = "repo" } })

InitFind ==
  /\ OneEngine
  /\ \E kind \in [FindNames -> FindKinds] :
       /\ srcDirs = FindTreeDirs(kind)
       /\ srcFiles = FindTreeFiles(kind)
  /\ srcListable \in BOOLEAN
  /\ destExists = TRUE
  /\ dstDirs = {}
  /\ dstFiles = EmptyDict
  /\ dstZips = EmptyDict
  /\ source_dir = "/s"
  /\ dest_dir = "/d"
  /\ dry_run = TRUE
  /\ use_zip = FALSE
  /\ skip_existing = FALSE
  /\ force = FALSE
  /\ quiet = FALSE
  /\ max_size = None
  /\ args_max_size = ArgOf(max_size)
  /\ include_git = FALSE
  /\ only_repos \in OnlyChoices
  /\ exclude_dirs = InitExcludeDirs(<< >>, include_git)
  /\ exclude_files = InitExcludeFiles(<< >>)
  /\ FreshEngine
  /\ repo_name = ""
  /\ pc = "run"

NextFind == RunStart

SpecFind == InitFind /\ [][NextFind]_vars

(***************************************************************************)
(* Calls of main with the absolute paths os.path.abspath can return for    *)
(* the source and the destination: the root, or names led by a separator.  *)
(***************************************************************************)
SourcePaths == { "/", "/s", "/s/t" }
DestPaths == { "/", "/s", "/st", "/s/d", "/s/t", "/s/t/d", "/d", "/d/s" }

InitMain ==
  /\ OneEngine
  /\ srcDirs = { << "r1" >>, << "r1", ".git" >> }
  /\ srcFiles = TreeFiles({ << << "r1", ".git" >>, Head1 >>,
                            << << "r1" >>,
                               [name |-> "a.py", size |-> 1,
                                link |-> FALSE] >> })
  /\ srcListable = TRUE
  /\ source_dir \in SourcePaths
  /\ dest_dir \in DestPaths
  /\ destExists \in BOOLEAN
  /\ dstDirs = {}
  /\ dstFiles = EmptyDict
  /\ dstZips = EmptyDict
  /\ dry_run \in BOOLEAN
  /\ use_zip \in BOOLEAN
  /\ skip_existing = FALSE
  /\ force = FALSE
  /\ quiet = FALSE
  /\ max_size = None
  /\ args_max_size = ArgOf(max_size)
  /\ include_git = FALSE
  /\ only_repos = None
  /\ exclude_dirs = InitExcludeDirs(<< >>, include_git)
  /\ exclude_files = InitExcludeFiles(<< >>)
  /\ FreshEngine
  /\ repo_name = ""
  /\ pc = "main"

NextMain == Main

SpecMain == InitMain /\ [][NextMain]_vars

\* the same calls of main, followed through run to the end of the process
SpecPaths == InitMain /\ [][Next]_vars

(***************************************************************************)
(* Calls of main with a --max-size string: an optional sign, a mantissa,   *)
(* an optional blank and a suffix, all of them also missing or malformed.  *)
(***************************************************************************)
SizeSigns == { "", "-", "+" }
SizeMantissas == { "", "0", "1", ".5", "1.5", "1.25", "1.", ".", "1.2.5" }
SizeBlanks == { "", " " }
SizeSuffixes == { "", "k", "K", "m", "M", "G", "x", "KB" }

MaxSizeArgs ==
  { sg \o mt \o bl \o sf :
      sg \in SizeSigns, mt \in SizeMantissas, bl \in SizeBlanks,
      sf \in SizeSuffixes }

InitArgs ==
  /\ OneEngine
  /\ srcDirs = { << "r1" >>, << "r1", ".git" >> }
  /\ srcFiles = TreeFiles({ << << "r1", ".git" >>, Head1 >>,
                            << << "r1" >>,
                               [name |-> "a.py", size |-> 1,
                                link |-> FALSE] >> })
  /\ srcListable = TRUE
  /\ source_dir = "/s"
  /\ dest_dir = "/d"
  /\ destExists \in BOOLEAN
  /\ dstDirs = {}
  /\ dstFiles = EmptyDict
  /\ dstZips = EmptyDict
  /\ args_max_size \in { None } \cup { Some(s) : s \in MaxSizeArgs }
  /\ dry_run = FALSE
  /\ use_zip = FALSE
  /\ skip_existing = FALSE
  /\ force = FALSE
  /\ quiet = FALSE
  /\ max_size = None
  /\ include_git = FALSE
  /\ only_repos = None
  /\ exclude_dirs = InitExcludeDirs(<< >>, include_git)
  /\ exclude_files = InitExcludeFiles(<< >>)
  /\ FreshEngine
  /\ repo_name = ""
  /\ pc = "args"

NextArgs == ParseArgs

SpecArgs == InitArgs /\ [][NextArgs]_vars

(***************************************************************************)
(* Calls of run in archive mode on a source with the one repository r1:    *)
(* a file slot at its root and a file slot in its directory src, the file  *)
(* names with and without consecutive dots.                                *)
(***************************************************************************)
ArchiveRootNames == { "a.py", "a..b", ".env" }
ArchiveDeepNames == { "b.py", "..b" }

InitArchive ==
  /\ OneEngine
  /\ \E k0 \in RegularFiles(ArchiveRootNames, { 1 }) \cup { Absent },
        k1 \in RegularFiles(ArchiveDeepNames, { 1 }) \cup { Absent } :
       /\ srcDirs = { << "r1" >>, << "r1", ".git" >>, << "r1", "src" >> }
       /\ srcFiles = TreeFiles({ << << "r1", ".git" >>, Head1 >>,
                                 << << "r1" >>, k0 >>,
                                 << << "r1", "src" >>, k1 >> })
  /\ srcListable = TRUE
  /\ source_dir = "/s"
  /\ dest_dir = "/d"
  /\ destExists = TRUE
  /\ dstDirs = {}
  /\ dstFiles = EmptyDict
  /\ dstZips \in { EmptyDict, DictOf({ << "r1.zip", << "r1/old.txt" >> >> }) }
  /\ dry_run = FALSE
  /\ use_zip = TRUE
  /\ skip_existing = FALSE
  /\ force = FALSE
  /\ quiet = FALSE
  /\ max_size = None
  /\ args_max_size = ArgOf(max_size)
  /\ include_git = FALSE
  /\ only_repos = None
  /\ exclude_dirs = InitExcludeDirs(<< >>, include_git)
  /\ exclude_files = InitExcludeFiles(<< >>)
  /\ FreshEngine
  /\ repo_name = ""
  /\ pc = "run"

NextArchive ==
  \/ RunStart
  \/ ScanBegin
  \/ WalkDir
  \/ ScanFile
  \/ ScanReturn
  \/ RunTransfer
  \/ ZipOpen
  \/ ZipEntry
  \/ ZipClose
  \/ RunAccumulate
  \/ RunSummary

SpecArchive == InitArchive /\ [][NextArchive]_vars

(***************************************************************************)
(* Direct calls of _scan_repo("r1") on engines built with include_git      *)
(* either way and with extra_excludes in every order: r1 holds .git, one   *)
(* file and one more directory, whose name is a rule, matches a rule with  *)
(* "*", "?" or a character class, or matches none.                         *)
(***************************************************************************)
RuleDirNames == { "node_modules", "x.egg-info", "src", "[ab]", "a", "xy" }
RuleExtraPatterns == { "[ab]/", "x?/", ".git/" }

\* extra_excludes: any of the patterns, in any order
RuleExtraChoices == UNION { Orderings(S) : S \in SUBSET RuleExtraPatterns }

InitRules ==
  /\ OneEngine
  /\ \E n \in RuleDirNames :
       /\ srcDirs = { << "r1" >>, << "r1", ".git" >>, << "r1", n >> }
       /\ srcFiles = TreeFiles({ << << "r1", ".git" >>, Head1 >>,
                                 << << "r1" >>,
                                    [name |-> "a.py", size |-> 1,
                                     link |-> FALSE] >>,
                                 << << "r1", n >>,
                                    [name |-> "b.py", size |-> 1,
                                     link |-> FALSE] >> })
  /\ srcListable = TRUE
  /\ source_dir = "/s"
  /\ dest_dir = "/d"
  /\ destExists = TRUE
  /\ dstDirs = {}
  /\ dstFiles = EmptyDict
  /\ dstZips = EmptyDict
  /\ dry_run = FALSE
  /\ use_zip = FALSE
  /\ skip_existing = FALSE
  /\ force = FALSE
  /\ quiet = FALSE
  /\ max_size = None
  /\ args_max_size = ArgOf(max_size)
  /\ include_git \in BOOLEAN
  /\ only_repos = None
  /\ \E extra \in RuleExtraChoices :
       /\ exclude_dirs = InitExcludeDirs(extra, include_git)
       /\ exclude_files = InitExcludeFiles(extra)
  /\ FreshEngine
  /\ repo_name = "r1"
  /\ pc = "scan"

NextRules == ScanBegin \/ WalkDir \/ ScanFile \/ ScanReturn

SpecRules == InitRules /\ [][NextRules]_vars

(***************************************************************************)
(* Calls of run, dry or not, in copy and in archive mode, on a source with *)
(* the one repository r1: a file slot at its root, a preserved name under  *)
(* node_modules and a file slot in src, the slots holding included,        *)
(* excluded, preserved, oversized and symlinked files; the destination is  *)
(* empty or holds an older r1/x.log.                                       *)
(***************************************************************************)
FilterRootKinds ==
  RegularFiles({ "a.py" }, 0..MaxFileSize)
    \cup RegularFiles({ "x.log", ".env.log", ".env", "B.PY" }, { 1 })
    \cup Symlinks({ "a.py" })

FilterDeepKinds == RegularFiles({ "b.py" }, { 1 }) \cup Symlinks({ "b.py" })

InitFilter ==
  /\ OneEngine
  /\ \E k0 \in FilterRootKinds, k1 \in FilterDeepKinds :
       /\ srcDirs = { << "r1" >>, << "r1", ".git" >>,
                      << "r1", "node_modules" >>, << "r1", "src" >> }
       /\ srcFiles = TreeFiles({ << << "r1", ".git" >>, Head1 >>,
                                 << << "r1" >>, k0 >>,
                                 << << "r1", "node_modules" >>,
                                    [name |-> ".env", size |-> 1,
                                     link |-> FALSE] >>,
                                 << << "r1", "src" >>, k1 >> })
  /\ srcListable = TRUE
  /\ source_dir = "/s"
  /\ dest_dir = "/d"
  /\ destExists = TRUE
  /\ \E old \in SUBSET { "r1/x.log" } :
       /\ dstFiles = OldFiles(old)
       /\ dstDirs = OldDirs(old)
  /\ dstZips = EmptyDict
  /\ dry_run \in BOOLEAN
  /\ use_zip \in BOOLEAN
  /\ skip_existing = FALSE
  /\ force = FALSE
  /\ quiet = FALSE
  /\ max_size \in MaxSizeChoices
  /\ args_max_size = ArgOf(max_size)
  /\ include_git = FALSE
  /\ only_repos = None
  /\ exclude_dirs = InitExcludeDirs(<< >>, include_git)
  /\ exclude_files = InitExcludeFiles(<< >>)
  /\ FreshEngine
  /\ repo_name = ""
  /\ pc = "run"

NextFilter ==
  \/ RunStart
  \/ ScanBegin
  \/ WalkDir
  \/ ScanFile
  \/ ScanReturn
  \/ RunTransfer
  \/ CopyBegin
  \/ CopyFile
  \/ CopyReturn
  \/ ZipOpen
  \/ ZipEntry
  \/ ZipClose
  \/ RunAccumulate
  \/ RunSummary

SpecFilter == InitFilter /\ [][NextFilter]_vars

(***************************************************************************)
(* A process that constructs engines one after the other, as the test      *)
(* suite does, each with its own extra_excludes and include_git, and calls *)
(* run on each: the source holds the one repository r1.                    *)
(***************************************************************************)
\* the process constructs at most MaxEngines engines
MaxEngines == 2

EngineExtraChoices == { << >>, << "src/", "*.md" >>, << ".git/" >> }

\* the statistics and locals of the engine under construction
NewStatistics ==
  /\ repos_found' = << >>
  /\ total_files_copied' = 0
  /\ total_files_skipped' = 0
  /\ total_bytes_copied' = 0
  /\ preserved_files' = << >>
  /\ symlinks_skipped' = 0
  /\ large_files_skipped' = 0
  /\ files_overwritten' = 0
  /\ files_skipped_existing' = 0
  /\ extension_stats' = EmptyDict
  /\ errors' = 0
  /\ warned' = 0
  /\ idx' = 0
  /\ files_to_copy' = << >>
  /\ skipped_stats' = EmptyDict
  /\ walkStack' = << >>
  /\ dirpath' = << >>
  /\ filenames' = << >>
  /\ ci' = 0
  /\ bytes_out' = 0

\* variant: the engine keeps the imported list objects themselves, so what
\* the constructor appends and removes shows in them
Construct_SharesLists ==
  /\ pc \in { "new", "exit0" }
  /\ engines < MaxEngines
  /\ \E extra \in EngineExtraChoices, incl_git \in BOOLEAN :
       LET merged == MergeDirs(imported_dirs, extra)
       IN  /\ include_git' = incl_git
           /\ exclude_dirs' = IF incl_git /\ InList(merged, ".git")
                                THEN RemoveFirst(merged, ".git")
                                ELSE merged
           /\ exclude_files' = MergeFiles(imported_files, extra)
  /\ imported_dirs' = exclude_dirs'
  /\ imported_files' = exclude_files'
  /\ engines' = engines + 1
  /\ NewStatistics
  /\ pc' = "run"
  /\ UNCHANGED << srcVars, dstVars, source_dir, dest_dir, args_max_size,
                  dry_run, use_zip, skip_existing, force, quiet, max_size,
                  only_repos, repo_name >>

\* GitMigEngine(source_dir, dest_dir, extra_excludes=extra,
\* include_git=incl_git, ...), first in the process or after the run of the
\* engine before it returned: the rule lists are copies of the imported
\* lists, merged with the extra rules, and the statistics start at zero
Construct ==
  /\ pc \in { "new", "exit0" }
  /\ engines < MaxEngines
  /\ \E extra \in EngineExtraChoices, incl_git \in BOOLEAN :
       LET merged == MergeDirs(imported_dirs, extra)
       IN  /\ include_git' = incl_git
           /\ exclude_dirs' = IF incl_git /\ InList(merged, ".git")
                                THEN RemoveFirst(merged, ".git")
                                ELSE merged
           /\ exclude_files' = MergeFiles(imported_files, extra)
  /\ UNCHANGED << imported_dirs, imported_files >>
  /\ engines' = engines + 1
  /\ NewStatistics
  /\ pc' = "run"
  /\ UNCHANGED << srcVars, dstVars, source_dir, dest_dir, args_max_size,
                  dry_run, use_zip, skip_existing, force, quiet, max_size,
                  only_repos, repo_name >>

InitEngines ==
  /\ imported_dirs = EXCLUDE_DIRS
  /\ imported_files = EXCLUDE_FILE_PATTERNS
  /\ engines = 0
  /\ srcDirs = { << "r1" >>, << "r1", ".git" >>, << "r1", "src" >> }
  /\ \E k0 \in RegularFiles({ "a.py", "a.md" }, { 1 }) :
       srcFiles = TreeFiles({ << << "r1", ".git" >>, Head1 >>,
                              << << "r1" >>, k0 >>,
                              << << "r1", "src" >>,
                                 [name |-> "b.py", size |-> 1,
                                  link |-> FALSE] >> })
  /\ srcListable = TRUE
  /\ source_dir = "/s"
  /\ dest_dir = "/d"
  /\ destExists = TRUE
  /\ dstDirs = {}
  /\ dstFiles = EmptyDict
  /\ dstZips = EmptyDict
  /\ dry_run \in BOOLEAN
  /\ use_zip \in BOOLEAN
  /\ skip_existing = FALSE
  /\ force = FALSE
  /\ quiet = FALSE
  /\ max_size = None
  /\ args_max_size = ArgOf(max_size)
  /\ include_git = FALSE
  /\ only_repos = None
  /\ exclude_dirs = << >>
  /\ exclude_files = << >>
  /\ FreshEngine
  /\ repo_name = ""
  /\ pc = "new"

NextEngines ==
  \/ Construct
  \/ RunStart
  \/ ScanBegin
  \/ WalkDir
  \/ ScanFile
  \/ ScanReturn
  \/ RunTransfer
  \/ CopyBegin
  \/ CopyFile
  \/ CopyReturn
  \/ ZipOpen
  \/ ZipEntry
  \/ ZipClose
  \/ RunAccumulate
  \/ RunSummary

SpecEngines == InitEngines /\ [][NextEngines]_vars

(***************************************************************************)
(* Properties of _scan_repo, stated on the source tree and the rule lists. *)
(***************************************************************************)
MatchesAny(name, patterns) ==
  \E i \in 1..Len(patterns) : fnmatch(name, patterns[i])

\* the name matches an exclusion directory pattern
IsExcludedDirName(name) ==
  \E i \in 1..Len(exclude_dirs) :
    fnmatch(name, exclude_dirs[i]) \/ name = exclude_dirs[i]

\* directories below the repository root whose name matches an exclusion
\* directory pattern
ExcludedDirs == { d \in srcDirs : Len(d) >= 2 /\ IsExcludedDirName(d[Len(d)]) }

\* file or directory q lies under some excluded directory
UnderExcluded(q) == \E d \in ExcludedDirs : d # q /\ IsPrefix(d, q)

\* the excluded directories the walk reaches: those with no excluded ancestor
ReachedExcluded == { d \in ExcludedDirs : ~ UnderExcluded(d) }

\* the files the scan encounters: those of the directories it descends into
Encountered == { q \in DOMAIN srcFiles : ~ UnderExcluded(q) }

FileName(q) == q[Len(q)]
RelPathOf(q) == JoinNames(Tail(q))
Candidates == { files_to_copy[i] : i \in 1..Len(files_to_copy) }
CandidatePaths == { c[1] : c \in Candidates }
PreservedSet == { preserved_files[i] : i \in 1..Len(preserved_files) }

\* the file is larger than the configured ceiling
OverCeiling(q) == max_size # None /\ srcFiles[q].size > max_size[1]

RECURSIVE TotalFilesUnder(_)
\* the sum, over the directories of the finite set S, of the number of
\* files each holds recursively
TotalFilesUnder(S) ==
  IF S = {} THEN 0
  ELSE LET d == CHOOSE y \in S : TRUE
       IN  Cardinality({ f \in DOMAIN srcFiles : IsPrefix(d, f) })
             + TotalFilesUnder(S \ {d})

\* C1: every non-symlink file the scan encounters that does not exceed the
\* size ceiling and whose name matches a preservation pattern is returned as
\* a candidate, with its size, and recorded in preserved_files, also when
\* its name matches exclusion file patterns (base or extra ones).
C1_PreservationDominates ==
  pc = "scanned" =>
    \A q \in Encountered :
      ( /\ ~ srcFiles[q].link
        /\ ~ OverCeiling(q)
        /\ MatchesAny(FileName(q), PRESERVE_PATTERNS) )
      => /\ << RelPathOf(q), srcFiles[q].size >> \in Candidates
         /\ (repo_name \o "/" \o RelPathOf(q)) \in PreservedSet

\* a scan has returned a preserved file whose name matches a base exclusion
\* pattern and one added through extra_excludes
C1_Witness ==
  /\ pc = "scanned"
  /\ \E q \in Encountered :
       /\ ~ srcFiles[q].link
       /\ MatchesAny(FileName(q), PRESERVE_PATTERNS)
       /\ MatchesAny(FileName(q), EXCLUDE_FILE_PATTERNS)
       /\ \E i \in (Len(EXCLUDE_FILE_PATTERNS) + 1)..Len(exclude_files) :
            fnmatch(FileName(q), exclude_files[i])
       /\ RelPathOf(q) \in CandidatePaths

\* C2 as stated: with no size ceiling, every non-symlink file of the tree
\* whose name matches a preservation pattern is a candidate, whichever
\* directory or file exclusion rules match.
C2_Original ==
  (pc = "scanned" /\ max_size = None) =>
    \A q \in DOMAIN srcFiles :
      (~ srcFiles[q].link /\ MatchesAny(FileName(q), PRESERVE_PATTERNS))
      => RelPathOf(q) \in CandidatePaths

\* C2 amended: with no size ceiling, a non-symlink file whose name matches a
\* preservation pattern is a candidate exactly when no directory on its
\* path below the repository root matches an exclusion directory pattern,
\* whichever exclusion file patterns match its name.
C2_PreservedUnlessUnderExcludedDir ==
  (pc = "scanned" /\ max_size = None) =>
    \A q \in DOMAIN srcFiles :
      (~ srcFiles[q].link /\ MatchesAny(FileName(q), PRESERVE_PATTERNS))
      => (RelPathOf(q) \in CandidatePaths <=> ~ UnderExcluded(q))

\* a scan without ceiling has returned with a preserved-name file left out
\* under an excluded directory and another one, matching an exclusion file
\* pattern, included from a directory it descended into
C2_Witness ==
  /\ pc = "scanned"
  /\ max_size = None
  /\ \E q \in DOMAIN srcFiles :
       /\ ~ srcFiles[q].link
       /\ MatchesAny(FileName(q), PRESERVE_PATTERNS)
       /\ UnderExcluded(q)
       /\ RelPathOf(q) \notin CandidatePaths
  /\ \E q \in Encountered :
       /\ ~ srcFiles[q].link
       /\ MatchesAny(FileName(q), PRESERVE_PATTERNS)
       /\ MatchesAny(FileName(q), exclude_files)
       /\ RelPathOf(q) \in CandidatePaths

\* C3 as stated: for every directory at any depth whose name matches an
\* exclusion directory pattern, no file under it is a candidate and the
\* count the skip tally records for it is its recursive file count.
C3_Original ==
  pc = "scanned" =>
    \A d \in ExcludedDirs :
      /\ \A q \in DOMAIN srcFiles :
           IsPrefix(d, q) => RelPathOf(q) \notin CandidatePaths
      /\ d[Len(d)] \in DOMAIN skipped_stats
      /\ skipped_stats[d[Len(d)]] = TotalFilesUnder({ d })

\* C3 amended: no file under a directory whose name matches an exclusion
\* directory pattern is a candidate; the skip tally is keyed by directory
\* name and records, for each name, the sum of the recursive file counts of
\* the excluded directories of that name that the walk reaches (those with
\* no excluded ancestor).
C3_TallyPerName ==
  pc = "scanned" =>
    /\ \A d \in ExcludedDirs :
         \A q \in DOMAIN srcFiles :
           IsPrefix(d, q) => RelPathOf(q) \notin CandidatePaths
    /\ DOMAIN skipped_stats = { d[Len(d)] : d \in ReachedExcluded }
    /\ \A n \in DOMAIN skipped_stats :
         skipped_stats[n] =
           TotalFilesUnder({ d \in ReachedExcluded : d[Len(d)] = n })

\* a scan has returned after reaching two excluded directories of one name,
\* each holding files, and an excluded directory with a nested directory
C3_Witness ==
  /\ pc = "scanned"
  /\ \E d1 \in ReachedExcluded, d2 \in ReachedExcluded :
       /\ d1 # d2
       /\ d1[Len(d1)] = d2[Len(d2)]
       /\ TotalFilesUnder({ d1 }) > 0
       /\ TotalFilesUnder({ d2 }) > 0
       /\ skipped_stats[d1[Len(d1)]] = TotalFilesUnder({ d1, d2 })

\* C4: no symlinked file is a candidate, and symlinks_skipped is the number
\* of symlinked files the scan encountered.
C4_SymlinksSkipped ==
  pc = "scanned" =>
    /\ \A q \in DOMAIN srcFiles :
         srcFiles[q].link => RelPathOf(q) \notin CandidatePaths
    /\ symlinks_skipped =
         Cardinality({ q \in Encountered : srcFiles[q].link })

\* a scan has returned after meeting two symlinked files, one of them with
\* a preserved name, and a regular file
C4_Witness ==
  /\ pc = "scanned"
  /\ symlinks_skipped = 2
  /\ \E q \in Encountered :
       srcFiles[q].link /\ MatchesAny(FileName(q), PRESERVE_PATTERNS)
  /\ files_to_copy # << >>

\* C5 as stated: for a ceiling N, every encountered regular file larger than
\* N is left out and counted once in large_files_skipped, and a file of size
\* at most N is a candidate when no other rule excludes it.
C5_Original ==
  (pc = "scanned" /\ max_size # None) =>
    /\ \A q \in Encountered :
         (~ srcFiles[q].link /\ srcFiles[q].size > max_size[1])
         => RelPathOf(q) \notin CandidatePaths
    /\ large_files_skipped =
         Cardinality({ q \in Encountered :
                         ~ srcFiles[q].link /\ srcFiles[q].size > max_size[1] })
    /\ \A q \in Encountered :
         ( /\ ~ srcFiles[q].link
           /\ srcFiles[q].size <= max_size[1]
           /\ \/ MatchesAny(FileName(q), PRESERVE_PATTERNS)
              \/ ~ MatchesAny(FileName(q), exclude_files) )
         => RelPathOf(q) \in CandidatePaths

(***************************************************************************)
(* Properties of main and run.                                             *)
(***************************************************************************)
\* C7: with dry_run enabled no step of main or run changes the destination:
\* whether it exists, its directories, its files and its archives stay as
\* they are.
C7_DryRunWritesNothing ==
  [][dry_run => UNCHANGED << destExists, dstDirs, dstFiles, dstZips >>]_vars

\* a dry run in archive mode over two repositories has ended normally, with
\* candidates counted, while the destination is still missing
C7_Witness ==
  /\ pc = "exit0"
  /\ dry_run
  /\ use_zip
  /\ Len(repos_found) = 2
  /\ total_files_copied > 0
  /\ ~ destExists
  /\ dstZips = EmptyDict

\* the immediate subdirectories of the source that hold a directory .git
DiscoveredRepos ==
  { q[1] : q \in { p \in srcDirs :
                     Len(p) = 1 /\ Append(p, ".git") \in srcDirs } }

\* the files a scan of the discovered repositories selects
WouldCopy ==
  { q \in Encountered :
      /\ Len(q) >= 2
      /\ q[1] \in DiscoveredRepos
      /\ ~ srcFiles[q].link
      /\ ~ OverCeiling(q)
      /\ \/ MatchesAny(FileName(q), PRESERVE_PATTERNS)
         \/ ~ MatchesAny(FileName(q), exclude_files) }

RECURSIVE SizeSum(_)
\* the sum of the sizes of the files of the finite set S
SizeSum(S) ==
  IF S = {} THEN 0
  ELSE LET q == CHOOSE y \in S : TRUE
       IN  srcFiles[q].size + SizeSum(S \ { q })

\* run has ended normally after it discovered the repositories
RunCompleted ==
  pc = "exit0" /\ Len(repos_found) = Cardinality(DiscoveredRepos)

\* nothing was at the destination when the run began: no file was found
\* there by the copy and none is left from before
EmptyDestAtStart ==
  /\ files_overwritten = 0
  /\ files_skipped_existing = 0
  /\ \A f \in DOMAIN dstFiles : dstFiles[f] # OldData

C12_FailureDoesNotStopLaterRepos ==
  [][/\ (pc \in { "zip", "zipping" } /\ pc' = "zipped" /\ errors' > errors)
          => bytes_out' = 0
     /\ (pc \in { "copied", "zipped" } /\ pc' # "exit1")
          => /\ total_bytes_copied' = total_bytes_copied + bytes_out
             /\ IF idx < Len(repos_found)
                  THEN /\ pc' = "scan"
                       /\ idx' = idx + 1
                       /\ repo_name' = repos_found[idx + 1]
                  ELSE pc' = "summary"]_vars

\* a run in archive mode over two repositories has ended normally: the
\* archive of r1 could not be opened, which was logged and added no bytes,
\* and the archive of r2 was written and its size added
C12_Witness ==
  /\ pc = "exit0"
  /\ use_zip
  /\ ~ dry_run
  /\ Len(repos_found) = 2
  /\ errors = 1
  /\ DOMAIN dstZips = { "r2.zip" }
  /\ dstZips["r2.zip"] = << "r2/a.py" >>
  /\ total_bytes_copied > 0
  /\ total_bytes_copied <= MaxArchiveSize

(***************************************************************************)
(* Properties of _copy_repo, stated on the steps that process a candidate. *)
(***************************************************************************)
\* a step of the copy loop that is done with candidate ci
CopyStep == pc = "copying" /\ ci <= Len(files_to_copy) /\ ci' = ci + 1

\* the destination file of candidate i, and the content of its source file
DstOf(i) == repo_name \o "/" \o files_to_copy[i][1]
SrcContentOf(i) == SrcData(repo_name \o "/" \o files_to_copy[i][1])

\* C9 as stated: with skip_existing off, processing a candidate adds one to
\* files_overwritten exactly when its destination file already exists, and
\* that destination file then holds the source file's content.
C9_Original ==
  [][(CopyStep /\ ~ skip_existing) =>
       IF DstOf(ci) \in DOMAIN dstFiles
         THEN /\ files_overwritten' = files_overwritten + 1
              /\ dstFiles'[DstOf(ci)] = SrcContentOf(ci)
         ELSE files_overwritten' = files_overwritten]_vars

\* C9 amended: with skip_existing off, processing a candidate adds one to
\* files_overwritten exactly when its destination file already exists,
\* whether or not the copy then succeeds; the destination file holds the
\* source file's content when the copy succeeded, that is when the step
\* logged no error.
C9_OverwrittenCountedBeforeCopy ==
  [][(CopyStep /\ ~ skip_existing) =>
       IF DstOf(ci) \in DOMAIN dstFiles
         THEN /\ files_overwritten' = files_overwritten + 1
              /\ errors' = errors => dstFiles'[DstOf(ci)] = SrcContentOf(ci)
         ELSE files_overwritten' = files_overwritten]_vars

\* a copy without skip_existing has returned: both candidates were at the
\* destination, both were counted, one was overwritten with the source
\* content and the copy of the other failed
C9_Witness ==
  /\ pc = "copied"
  /\ ~ skip_existing
  /\ Len(files_to_copy) = 2
  /\ files_overwritten = 2
  /\ errors = 1
  /\ \A i \in 1..2 : DstOf(i) \in DOMAIN dstFiles
  /\ \E i \in 1..2 : dstFiles[DstOf(i)] = SrcContentOf(i)
  /\ \E i \in 1..2 : dstFiles[DstOf(i)] = OldData

\* C10: with skip_existing on, processing a candidate whose destination
\* file already exists leaves the destination as it is, adds one to
\* files_skipped_existing, leaves files_overwritten alone and adds nothing
\* to the byte count returned.
C10_SkipExistingLeavesFile ==
  [][(CopyStep /\ skip_existing /\ DstOf(ci) \in DOMAIN dstFiles) =>
       /\ dstFiles' = dstFiles
       /\ dstZips' = dstZips
       /\ files_skipped_existing' = files_skipped_existing + 1
       /\ files_overwritten' = files_overwritten
       /\ bytes_out' = bytes_out]_vars

\* a copy with skip_existing has returned: one candidate was at the
\* destination and still holds its old content, the other was copied and
\* makes up the bytes returned
C10_Witness ==
  /\ pc = "copied"
  /\ skip_existing
  /\ Len(files_to_copy) = 2
  /\ files_skipped_existing = 1
  /\ files_overwritten = 0
  /\ \E i, j \in 1..2 :
       /\ { DstOf(i), DstOf(j) } \subseteq DOMAIN dstFiles
       /\ dstFiles[DstOf(i)] = OldData
       /\ dstFiles[DstOf(j)] = SrcContentOf(j)
       /\ bytes_out = files_to_copy[j][2]
       /\ bytes_out > 0

\* the candidates whose destination file holds the source file's content
CopiedOk ==
  { i \in 1..Len(files_to_copy) :
      DstOf(i) \in DOMAIN dstFiles /\ dstFiles[DstOf(i)] = SrcContentOf(i) }

RECURSIVE CandidateSizeSum(_)
\* the sum of the sizes of the candidates with the indices of the finite set I
CandidateSizeSum(I) ==
  IF I = {} THEN 0
  ELSE LET i == CHOOSE j \in I : TRUE
       IN  files_to_copy[i][2] + CandidateSizeSum(I \ { i })

\* C11: when _copy_repo has returned, every candidate of the list was
\* attempted: each one was copied, skipped as existing, or failed with one
\* logged error; and the value returned is the total size of exactly the
\* candidates that were copied.
C11_FailedCopyIsLoggedAndSkipped ==
  pc = "copied" =>
    /\ ci = Len(files_to_copy) + 1
    /\ errors + files_skipped_existing + Cardinality(CopiedOk)
         = Len(files_to_copy)
    /\ bytes_out = CandidateSizeSum(CopiedOk)

\* a copy has returned after the copy of the first candidate failed: the
\* error was logged, the second candidate was copied and its size is the
\* value returned
C11_Witness ==
  /\ pc = "copied"
  /\ Len(files_to_copy) = 2
  /\ errors = 1
  /\ files_skipped_existing = 0
  /\ CopiedOk = { 2 }
  /\ bytes_out = files_to_copy[2][2]
  /\ bytes_out > 0

\* C17: what a step of the copy loop does to the destination files, to the
\* byte count and to files_overwritten and files_skipped_existing is fixed
\* by whether the destination file exists, by skip_existing and by the
\* outcome of the copy, the same with force on and off; force decides only
\* whether the overwrite warning is printed: never with force, and without
\* it only for an overwrite (and not in quiet mode).
C17_ForceOnlySilencesWarning ==
  [][CopyStep =>
       LET d == DstOf(ci)
           exists == d \in DOMAIN dstFiles
           skipped == exists /\ skip_existing
       IN  /\ files_overwritten' =
                files_overwritten + (IF exists /\ ~ skip_existing THEN 1 ELSE 0)
           /\ files_skipped_existing' =
                files_skipped_existing + (IF skipped THEN 1 ELSE 0)
           /\ \/ dstFiles' = dstFiles /\ bytes_out' = bytes_out
              \/ /\ ~ skipped
                 /\ errors' = errors
                 /\ dstFiles' = DictSet(dstFiles, d, SrcContentOf(ci))
                 /\ bytes_out' = bytes_out + files_to_copy[ci][2]
              \/ /\ ~ skipped
                 /\ errors' = errors + 1
                 /\ dstFiles' = DictSet(dstFiles, d, PartialData)
                 /\ bytes_out' = bytes_out
           /\ warned' = warned + (IF exists /\ ~ skip_existing /\ ~ force
                                      /\ ~ quiet
                                    THEN 1 ELSE 0)]_vars

\* a copy with force and without quiet has returned: both candidates were
\* at the destination, both were overwritten with the source content and
\* counted, and no warning was printed
C17_Witness ==
  /\ pc = "copied"
  /\ force
  /\ ~ quiet
  /\ ~ skip_existing
  /\ Len(files_to_copy) = 2
  /\ files_overwritten = 2
  /\ CopiedOk = { 1, 2 }
  /\ warned = 0
  /\ errors = 0

(***************************************************************************)
(* Properties of _zip_repo, stated on the archives at the destination.     *)
(***************************************************************************)
\* the name has a parent-directory segment, with either separator
HasTraversalSegment(name) ==
  LET n == Replace(name, "\\", "/")
  IN  \/ n = ".."
      \/ StartsWith(n, "../")
      \/ EndsWith(n, "/..")
      \/ Contains(n, "/../")

BeginsWithSeparator(name) == StartsWith(name, "/") \/ StartsWith(name, "\\")

\* the entries of the archive of the repository being processed
Entries == dstZips[ZipPath(repo_name)]

\* the candidates the loop of _zip_repo is done with
Processed == 1..(ci - 1)

\* C6: no entry of an archive has a name with a parent-directory segment or
\* a leading separator; while the archive is being written, every candidate
\* the loop is done with whose path has such a segment or such a start was
\* skipped with a logged error and has no entry, and the skip did not end
\* the archive: every candidate the loop is done with whose path is free of
\* ".." and of a leading separator has its entry.
C6_NoTraversalEntries ==
  /\ \A z \in DOMAIN dstZips :
       \A k \in 1..Len(dstZips[z]) :
         /\ ~ HasTraversalSegment(dstZips[z][k])
         /\ ~ BeginsWithSeparator(dstZips[z][k])
  /\ pc = "zipping" =>
       /\ errors >= Cardinality({ i \in Processed :
                      \/ HasTraversalSegment(files_to_copy[i][1])
                      \/ BeginsWithSeparator(files_to_copy[i][1]) })
       /\ Len(Entries) + errors = ci - 1
       /\ \A i \in Processed :
            LET rel_path == files_to_copy[i][1]
                name == Replace(repo_name \o "/" \o rel_path, "\\", "/")
            IN  /\ (HasTraversalSegment(rel_path) \/ BeginsWithSeparator(rel_path))
                     => ~ InList(Entries, name)
                /\ (~ Contains(rel_path, "..") /\ ~ BeginsWithSeparator(rel_path))
                     => InList(Entries, name)

\* an archive was closed after a path with a parent-directory segment was
\* skipped with a logged error and the candidate after it was written
C6_Witness ==
  /\ pc = "zipped"
  /\ bytes_out > 0
  /\ Len(files_to_copy) = 2
  /\ HasTraversalSegment(files_to_copy[1][1])
  /\ errors = 1
  /\ Entries = << "r1/" \o Replace(files_to_copy[2][1], "\\", "/") >>
  /\ files_to_copy[2][1] # "ok.txt"

\* C16 as stated: when _zip_repo has returned the size of the archive it
\* wrote, the archive of the repository holds exactly one entry
\* <repo>/<rel_path> for every candidate of the scan and no other entry,
\* and the destination has no directory <repo>.
C16_Original ==
  (pc = "zipped" /\ bytes_out > 0) =>
    /\ \A i \in 1..Len(files_to_copy) :
         Cardinality({ k \in 1..Len(Entries) :
                         Entries[k] = repo_name \o "/" \o files_to_copy[i][1] })
           = 1
    /\ \A k \in 1..Len(Entries) :
         \E i \in 1..Len(files_to_copy) :
           Entries[k] = repo_name \o "/" \o files_to_copy[i][1]
    /\ repo_name \notin dstDirs

(***************************************************************************)
(* Properties of _find_repos.                                              *)
(***************************************************************************)
Range(s) == { s[i] : i \in 1..Len(s) }

\* the sequence is in strictly ascending order of str
IsAscending(s) == \A i \in 1..(Len(s) - 1) : StrLess(s[i], s[i + 1])

\* C13 as stated: once _find_repos has returned, repos_found is empty where
\* the source cannot be listed; otherwise it is in ascending order and
\* holds exactly the immediate subdirectories of the source with a
\* directory .git, or, with an allow-list, exactly those of them that are
\* on the list.
C13_Original ==
  pc # "run" =>
    IF ~ srcListable THEN repos_found = << >>
    ELSE /\ IsAscending(repos_found)
         /\ Range(repos_found) =
              IF only_repos = None THEN DiscoveredRepos
              ELSE DiscoveredRepos \cap Range(only_repos[1])

(***************************************************************************)
(* Properties of main's validation of the paths.                           *)
(***************************************************************************)
RECURSIVE PathComponents(_)
\* the names of a path, in order: what stands between its separators
PathComponents(p) ==
  IF p = "" THEN << >>
  ELSE IF SubSeq(p, 1, 1) = "/" THEN PathComponents(SubSeq(p, 2, Len(p)))
  ELSE LET stops == { i \in 1..Len(p) : SubSeq(p, i, i) = "/" }
           n == IF stops = {} THEN Len(p) + 1
                ELSE CHOOSE i \in stops : \A j \in stops : i <= j
       IN  << SubSeq(p, 1, n - 1) >> \o PathComponents(SubSeq(p, n, Len(p)))

\* absolute path d is absolute path s or lies beneath it
AtOrBeneath(d, s) == IsPrefix(PathComponents(s), PathComponents(d))

\* C14 as stated: whenever the destination is the source or lies beneath
\* it, the step of main exits with status 1 and leaves the destination as
\* it is.
C14_Original ==
  [][(pc = "main" /\ AtOrBeneath(dest_dir, source_dir)) =>
       /\ pc' = "exit1"
       /\ UNCHANGED << destExists, dstDirs, dstFiles, dstZips >>]_vars

(***************************************************************************)
(* Properties of main's parse of --max-size.                               *)
(***************************************************************************)
\* --max-size strings and the byte counts they stand for
SizeExamples ==
  { << "1", 1 >>, << "1K", 1024 >>, << "1.25k", 1280 >>,
    << "1.5K", 1536 >>, << "1M", 1048576 >>, << ".5m", 524288 >>,
    << "1G", 1073741824 >>, << "1.5G", 1610612736 >> }

\* C15 as stated: once the --max-size string is parsed, main has exited
\* with status 1 or max_size is a non-negative byte count (None where the
\* option is missing or empty), and a number with a suffix K, M or G is
\* accepted as that number times 1024, 1024^2 or 1024^3.
C15_Original ==
  pc # "args" =>
    /\ (pc = "main" /\ max_size # None) => max_size[1] >= 0
    /\ \A x \in SizeExamples :
         args_max_size = Some(x[1]) => (pc = "main" /\ max_size = Some(x[2]))

(***************************************************************************)
(* Properties of _should_exclude_dir, read off the walk of the root of r1: *)
(* a directory of the root is a key of skipped_stats exactly when          *)
(* _should_exclude_dir returned true for its name.                         *)
(***************************************************************************)
\* the loop over the directories of the root of r1 has run
RootWalked == dirpath # << >>

RootDirNames == ListDirs(<< "r1" >>)

\* the name matches at least one of the rules as a glob, whatever their order
MatchesSomeGlob(name) == \E r \in Range(exclude_dirs) : fnmatch(name, r)

\* the name is one of the rules, character for character
IsSomeRule(name) == name \in Range(exclude_dirs)

\* C18 as stated: a directory name is excluded if it matches at least one
\* exclusion directory glob and is not excluded if it matches none.
C18_Original ==
  RootWalked =>
    \A n \in RootDirNames :
      (n \in DOMAIN skipped_stats) <=> MatchesSomeGlob(n)

\* C18, amended: a directory name is excluded exactly when it matches at
\* least one rule of exclude_dirs as a glob or is equal to one of the rules,
\* a condition on the set of rules and so the same for every ordering of
\* them.
C18_ExcludedIffGlobOrEqual ==
  RootWalked =>
    \A n \in RootDirNames :
      (n \in DOMAIN skipped_stats) <=> (MatchesSomeGlob(n) \/ IsSomeRule(n))

\* several extra rules were given, and a directory whose name is a rule
\* with a character class that does not match itself was excluded
C18_Witness ==
  /\ RootWalked
  /\ Len(exclude_dirs) >= Len(EXCLUDE_DIRS) + 2
  /\ \E n \in RootDirNames :
       /\ n \in DOMAIN skipped_stats
       /\ IsSomeRule(n)
       /\ ~ MatchesSomeGlob(n)

\* C20 as stated: with include_git set, whatever extra_excludes holds, .git
\* is not excluded and the scan returns its files as candidates; with
\* include_git not set, .git is excluded.
C20_Original ==
  /\ RootWalked =>
       ((".git" \in DOMAIN skipped_stats) <=> ~ include_git)
  /\ (pc = "scanned" /\ include_git) =>
       << ".git/HEAD", 1 >> \in Range(files_to_copy)

(***************************************************************************)
(* Properties of run on the files the rules leave out.                     *)
(***************************************************************************)
\* the file is left out by a rule: it lies under an excluded directory, is a
\* symlink, is larger than the ceiling, or its name matches an exclusion
\* file pattern and no preservation pattern
IsLeftOut(q) ==
  \/ UnderExcluded(q)
  \/ srcFiles[q].link
  \/ OverCeiling(q)
  \/ /\ MatchesAny(FileName(q), exclude_files)
     /\ ~ MatchesAny(FileName(q), PRESERVE_PATTERNS)

\* the files of the discovered repositories
RepoFiles ==
  { q \in DOMAIN srcFiles : Len(q) >= 2 /\ q[1] \in DiscoveredRepos }

\* C19 as stated: no candidate of a scan, and so nothing that is added to
\* total_files_copied, is a file under an excluded directory, a file whose
\* name matches an exclusion file pattern and no preservation pattern, a
\* symlink or an oversized file; a completed run has counted the other
\* files of the repositories and, in copy mode into an empty destination,
\* has left no file that a rule leaves out under the destination.
C19_Original ==
  /\ \A q \in RepoFiles :
       (q[1] = repo_name /\ RelPathOf(q) \in CandidatePaths) => ~ IsLeftOut(q)
  /\ RunCompleted =>
       total_files_copied = Cardinality({ q \in RepoFiles : ~ IsLeftOut(q) })
  /\ (RunCompleted /\ ~ dry_run /\ ~ use_zip /\ EmptyDestAtStart) =>
       \A q \in RepoFiles : IsLeftOut(q) => JoinNames(q) \notin DOMAIN dstFiles

(***************************************************************************)
(* Properties of the end of main.                                          *)
(***************************************************************************)
\* engine.run is executing
Running ==
  pc \in { "run", "scan", "walk", "scanned", "copy", "copying", "copied",
           "zip", "zipping", "zipped", "summary" }

\* C21: at every point of run there is a step to exit status 1 that leaves
\* the destination as it is; every step from run to exit status 1 leaves
\* the destination as it is; run ends with status 0 only from its summary
\* or when it discovered no repository; and every run ends, with status 0
\* unless such a step to status 1 ends it.
C21_InterruptExitsNonZero ==
  /\ [](Running => ENABLED (Next /\ pc' = "exit1"
                             /\ UNCHANGED << destExists, dstDirs, dstFiles,
                                             dstZips >>))
  /\ [][(Running /\ pc' = "exit1") =>
          UNCHANGED << destExists, dstDirs, dstFiles, dstZips >>]_vars
  /\ [][(Running /\ pc' = "exit0") =>
          (pc = "summary" \/ (pc = "run" /\ repos_found' = << >>))]_vars
  /\ (pc = "run") ~> (pc \in { "exit0", "exit1" })

\* a run in copy mode was interrupted after it copied a file and before it
\* copied the next candidate: the copy is still at the destination
C21_Witness ==
  /\ pc = "exit1"
  /\ ~ use_zip
  /\ ci >= 1
  /\ ci <= Len(files_to_copy)
  /\ \E f \in DOMAIN dstFiles : dstFiles[f] # OldData /\ dstFiles[f] # PartialData

(***************************************************************************)
(* Properties of the totals of run.                                        *)
(***************************************************************************)
\* C22 as stated, for a run in copy mode over the one repository whose
\* candidates are in files_to_copy: each candidate whose copy failed, which
\* logged one error, is counted neither in total_files_copied nor in
\* total_bytes_copied.
C22_Original ==
  (RunCompleted /\ ~ dry_run /\ ~ use_zip /\ Len(repos_found) = 1) =>
    /\ total_files_copied + errors <= Len(files_to_copy)
    /\ total_bytes_copied = CandidateSizeSum(CopiedOk)

(***************************************************************************)
(* Properties of extension_stats, stated on the steps of the file loop of  *)
(* _scan_repo.                                                             *)
(***************************************************************************)
\* a step of the file loop that is done with the first of filenames
ScanStep == pc = "walk" /\ filenames # << >> /\ filenames' = Tail(filenames)

\* file names and the key of extension_stats that stands for each
ExtensionExamples ==
  { << "a.py", ".py" >>, << "b.py", ".py" >>, << "B.PY", ".py" >>,
    << "x.log", ".log" >>, << ".env.log", ".log" >>,
    << ".env", "(no ext)" >>, << "HEAD", "(no ext)" >> }

ExampleKey(f) == (CHOOSE x \in ExtensionExamples : x[1] = f)[2]

\* extension_stats gained one file of the given size under the key, and
\* nothing else
StatsGained(key, size) ==
  LET old == IF key \in DOMAIN extension_stats THEN extension_stats[key]
             ELSE [count |-> 0, bytes |-> 0]
  IN  /\ DOMAIN extension_stats' = DOMAIN extension_stats \cup { key }
      /\ extension_stats'[key] =
           [count |-> old.count + 1, bytes |-> old.bytes + size]
      /\ \A k \in DOMAIN extension_stats \ { key } :
           extension_stats'[k] = extension_stats[k]

\* C23 as stated: every file the scan encounters adds 1 and its size to
\* extension_stats under its lowercased extension or "(no ext)".
C23_Original ==
  [][ScanStep =>
       StatsGained(ExampleKey(Head(filenames)),
                   srcFiles[Append(dirpath, Head(filenames))].size)]_vars

\* C23, amended: a file the scan skips as a symlink or as oversized leaves
\* extension_stats as it is; every other file it encounters, included,
\* preserved or excluded by a file pattern, in a dry run or not, adds 1 and
\* its size under its lowercased extension or "(no ext)".
C23_StatsForFilesNotSkipped ==
  [][ScanStep =>
       IF \/ symlinks_skipped' # symlinks_skipped
          \/ large_files_skipped' # large_files_skipped
         THEN extension_stats' = extension_stats
         ELSE StatsGained(ExampleKey(Head(filenames)),
                          srcFiles[Append(dirpath, Head(filenames))].size)]_vars

\* a dry run has ended: the symlink src/b.py was skipped and left no entry,
\* the file B.PY of the root is counted under .py
C23_Witness ==
  /\ pc = "exit0"
  /\ dry_run
  /\ symlinks_skipped = 1
  /\ << "r1", "B.PY" >> \in DOMAIN srcFiles
  /\ DOMAIN extension_stats = { ".py" }
  /\ extension_stats[".py"] = [count |-> 1, bytes |-> 1]

(***************************************************************************)
(* Properties of the order of the steps of run.                            *)
(***************************************************************************)
\* run is scanning the current repository
Scanning == pc \in { "scan", "walk" }

\* run is transferring the current repository
Transferring == pc \in { "copy", "copying", "copied", "zip", "zipping", "zipped" }

\* the scan or the transfer of the current repository has just ended with
\* nothing left to do for it
RepoDone ==
  \/ pc = "scanned" /\ dry_run
  \/ pc \in { "copied", "zipped" }

\* C24: discovery runs once, as the first step of run, and its result has
\* no repository twice; while a repository is scanned or transferred it is
\* the one at position idx of the discovered list; a transfer starts only
\* from a completed scan of the same repository; a scan starts only after
\* discovery, with the first repository, or after the scan (in a dry run)
\* or the transfer of the repository before it, with the next one, so idx
\* only grows and no repository is processed twice; and the summary starts
\* once, only when the last repository of the list is done.
C24_RunIsLinear ==
  /\ [](\A i, j \in 1..Len(repos_found) :
          repos_found[i] = repos_found[j] => i = j)
  /\ []((Scanning \/ pc = "scanned" \/ Transferring) =>
          /\ idx \in 1..Len(repos_found)
          /\ repo_name = repos_found[idx])
  /\ [][/\ (repos_found' # repos_found \/ pc' = "run") => pc \in { "main", "run" }
        /\ (~ Scanning /\ pc' = "scan") =>
             \/ pc = "run" /\ idx' = 1
             \/ RepoDone /\ idx' = idx + 1
        /\ (~ Transferring /\ pc' \in { "copy", "zip" }) =>
             pc = "scanned" /\ ~ dry_run /\ idx' = idx
        /\ (Scanning \/ pc = "scanned" \/ Transferring) =>
             (idx' = idx \/ (RepoDone /\ idx' = idx + 1))
        /\ (pc # "summary" /\ pc' = "summary") =>
             RepoDone /\ idx = Len(repos_found)
        /\ pc = "summary" => pc' \in { "exit0", "exit1" }]_vars

\* a run in copy mode over two repositories has ended normally after it
\* copied a file of the first and then a file of the second
C24_Witness ==
  /\ pc = "exit0"
  /\ ~ dry_run
  /\ ~ use_zip
  /\ repos_found = << "r1", "r2" >>
  /\ idx = 2
  /\ \E f, g \in DOMAIN dstFiles :
       /\ StartsWith(f, "r1/") /\ dstFiles[f] = SrcData(f)
       /\ StartsWith(g, "r2/") /\ dstFiles[g] = SrcData(g)

(***************************************************************************)
(* Properties of the rule lists over the life of a process.                *)
(***************************************************************************)
\* C25: the imported lists stay as gitmig_config defines them whatever
\* engines are constructed; every engine built without include_git has the
\* whole of them, .git included, at the head of its rule lists; and only
\* the construction of an engine sets exclude_dirs and exclude_files.
C25_RuleListsAreFixed ==
  /\ [](/\ imported_dirs = EXCLUDE_DIRS
        /\ imported_files = EXCLUDE_FILE_PATTERNS)
  /\ []((engines >= 1 /\ ~ include_git) =>
          /\ IsPrefix(EXCLUDE_DIRS, exclude_dirs)
          /\ \E i \in 1..Len(exclude_dirs) : exclude_dirs[i] = ".git")
  /\ [](engines >= 1 => IsPrefix(EXCLUDE_FILE_PATTERNS, exclude_files))
  /\ [][engines' = engines =>
          UNCHANGED << exclude_dirs, exclude_files >>]_vars

\* the run of a second engine, built with the defaults, has ended after the
\* run of a first engine that was built with include_git and copied
\* .git/HEAD
C25_Witness ==
  /\ pc = "exit0"
  /\ engines = 2
  /\ ~ include_git
  /\ exclude_dirs = EXCLUDE_DIRS
  /\ exclude_files = EXCLUDE_FILE_PATTERNS
  /\ "r1/.git/HEAD" \in DOMAIN dstFiles
  /\ total_files_copied = 2

(***************************************************************************)
(* Properties of the paths the engine writes.                              *)
(***************************************************************************)
\* the absolute paths of the directories, files and archives under the
\* destination, all of them written by the engine where the destination
\* was empty when main began
WrittenPaths ==
  { PathJoin(dest_dir, k) :
      k \in dstDirs \cup DOMAIN dstFiles \cup DOMAIN dstZips }

\* C26 as stated: whatever source and destination main has let through,
\* every file written is <repo>/<rel_path> and every archive <repo>.zip
\* under the destination, for a discovered repository, and no path written
\* lies at or beneath the source root.
C26_Original ==
  /\ \A f \in DOMAIN dstFiles :
       \E q \in RepoFiles : f = PathJoin(q[1], RelPathOf(q))
  /\ \A z \in DOMAIN dstZips : \E r \in DiscoveredRepos : z = r \o ".zip"
  /\ \A w \in WrittenPaths : ~ AtOrBeneath(w, source_dir)

(***************************************************************************)
(* Properties of the aggregates of run.                                    *)
(***************************************************************************)
RECURSIVE TallySum(_, _)
\* the sum of the counts that the tally d records for the names of the
\* finite set K
TallySum(d, K) ==
  IF K = {} THEN 0
  ELSE LET k == CHOOSE x \in K : TRUE
       IN  d[k] + TallySum(d, K \ { k })

\* C27: total_files_copied and total_files_skipped change only when a
\* repository is done, and then by the length of the candidate list and by
\* the sum of the tally the scan of that repository returned, whatever the
\* transfer did; so a completed run ends with the number of files the scans
\* select, copied or not, and with the number of files under the excluded
\* directories of the repositories, to which files excluded by pattern,
\* symlinks and oversized files add nothing.
C27_AggregatesAreScanOutputs ==
  /\ [][/\ (\/ total_files_copied' # total_files_copied
             \/ total_files_skipped' # total_files_skipped) => RepoDone
        /\ (RepoDone /\ pc' \in { "scan", "summary" }) =>
             /\ total_files_copied' = total_files_copied + Len(files_to_copy)
             /\ total_files_skipped' =
                  total_files_skipped
                    + TallySum(skipped_stats, DOMAIN skipped_stats)]_vars
  /\ [](RunCompleted =>
          /\ total_files_copied = Cardinality(WouldCopy)
          /\ total_files_skipped =
               Cardinality({ q \in RepoFiles : UnderExcluded(q) }))

\* a run in copy mode over two repositories has ended: a copy failed, a
\* file was skipped as existing, and both are counted in
\* total_files_copied; the file excluded by pattern or symlinked at the
\* root of r1 is not in total_files_skipped
C27_Witness ==
  /\ RunCompleted
  /\ ~ dry_run
  /\ ~ use_zip
  /\ Len(repos_found) = 2
  /\ errors = 1
  /\ files_skipped_existing = 1
  /\ total_files_copied = 2
  /\ total_files_copied = Cardinality(WouldCopy)
  /\ total_files_skipped = 3
  /\ Cardinality(RepoFiles) = 5

=============================================================================
